---- MODULE Spec2Model ----
(***************************************************************************)
(* BGP nexthop scan (bgpd/bgp_nexthop.c): the double-buffered nexthop      *)
(* cache, the resolver client on the zlookup socket, the periodic scan of  *)
(* the BGP RIB, and the connected table.                                   *)
(*                                                                         *)
(* Addresses are bit strings (sequences over {0,1}); a prefix is the       *)
(* sequence of its leading bits, a host prefix has the full length.        *)
(* A pointer that may be NULL is a sequence of length 0 (NULL) or 1.       *)
(* Work items (a timer or event callback) run to completion: the           *)
(* variable pc holds the position inside bgp_scan_timer and every other    *)
(* callback is enabled only when pc = "idle".                              *)
(***************************************************************************)
EXTENDS Integers, Sequences, FiniteSets

----------------------------------------------------------------------------
(* Bounds of the model *)

\* stand-in for VERIFIED_NEXTHOPS_PER_MSG (bgp_nexthop.c:487), scaled down
BatchCap == 2
\* most reply frames read by one rgate verification
MaxReplyFrames == 2
\* most times bgp_damp_scan answers true for one route
MaxDampHits == 1

\* largest refcnt a connected entry reaches
MaxRefcnt == 2

----------------------------------------------------------------------------
(* Address families, addresses, the RIB *)

AFI_IP == "AFI_IP"
AFI_IP6 == "AFI_IP6"
AFI == {AFI_IP, AFI_IP6}

\* IPv6 link-local: the leading bits of fe80::/10, here the two leading bits
IN6_IS_ADDR_LINKLOCAL(a) == Len(a) >= 2 /\ a[1] = 1 /\ a[2] = 1

\* IPv4 host addresses of the model
Nexthops4 == {<<0, 1>>, <<1, 0>>, <<1, 1>>}
Global6 == <<0, 0, 1>>
LinkLocal6 == <<1, 1, 0>>

\* keys of the nexthop cache tables: host prefixes
CacheAddrs(afi) == IF afi = AFI_IP THEN Nexthops4 ELSE {Global6}

\* attributes a route may carry (attr->nexthop, attr->extra->mp_nexthop_*)
Attrs(afi) ==
  IF afi = AFI_IP
  THEN {[nexthop |-> <<0, 1>>, mp_nexthop_len |-> 4]}
  ELSE {[nexthop |-> Global6, mp_nexthop_len |-> 16],
        [nexthop |-> LinkLocal6, mp_nexthop_len |-> 16],
        [nexthop |-> Global6, mp_nexthop_len |-> 32]}

\* the routes (struct bgp_info) of bgp->rib[afi][SAFI_UNICAST], in the order
\* bgp_table_top/bgp_route_next and bi->next visit them
Routes == {"r1", "r2", "r3", "r4", "r5"}
RibOrder(afi) == IF afi = AFI_IP THEN <<"r1", "r2", "r3", "r4">> ELSE <<"r5">>
\* the walk over the routes the RIB holds
RibWalk(afi, held) ==
  LET Held(r) == r \in held IN SelectSeq(RibOrder(afi), Held)
RouteAfi(r) == IF r = "r5" THEN AFI_IP6 ELSE AFI_IP
\* rn->p of the RIB node the route hangs on
RoutePrefix(r) ==
  CASE r = "r1" -> <<0>>
    [] r = "r2" -> <<1, 1>>
    [] r \in {"r3", "r4"} -> <<1, 0>>
    [] OTHER -> <<0, 0>>
\* peer_sort (bi->peer) == BGP_PEER_EBGP && bi->peer->ttl == 1
RouteEbgpTtl1(r) == r = "r2"
\* bi->type == ZEBRA_ROUTE_BGP && bi->sub_type == BGP_ROUTE_NORMAL
RouteNormal(r) == r # "r4"
\* bi->extra && bi->extra->damp_info
RouteDampInfo(r) == r \in {"r1", "r5"}
\* CHECK_FLAG (bgp->af_flags[afi][SAFI_UNICAST], BGP_CONFIG_DAMPENING)
Dampening(afi) == afi = AFI_IP

----------------------------------------------------------------------------
(* Nexthops and cache entries *)

\* struct nexthop as XCALLOC leaves it
NexthopZero == [type |-> "NONE", gate |-> 0, ifindex |-> 0]

\* nexthops as the routing service writes them on the wire
WireA == [type |-> "IPV4", gate |-> 1, ifindex |-> 0]
WireB == [type |-> "IFINDEX", gate |-> 0, ifindex |-> 1]
WireC == [type |-> "IPV6", gate |-> 1, ifindex |-> 0]
WireD == [type |-> "IPV6_IFINDEX", gate |-> 1, ifindex |-> 1]

\* a reply frame: header (marker, version) good or not, metric, nexthops
BadFrame == [hdr_ok |-> FALSE, metric |-> 0, nexthops |-> <<>>]
GoodFrame(m, l) == [hdr_ok |-> TRUE, metric |-> m, nexthops |-> l]
\* the reply frames the routing service sends in the model
Frames(afi) ==
  IF afi = AFI_IP
  THEN {BadFrame, GoodFrame(0, <<>>), GoodFrame(0, <<WireA>>),
        GoodFrame(1, <<WireA>>), GoodFrame(1, <<WireB>>),
        GoodFrame(1, <<WireA, WireB>>)}
  ELSE {BadFrame, GoodFrame(0, <<>>), GoodFrame(1, <<WireC>>),
        GoodFrame(0, <<WireD>>)}

\* what one query meets: the write fails, or it succeeds and a frame is read
WriteFail == [write_ok |-> FALSE, frame |-> BadFrame]
Outcomes(afi) ==
  {WriteFail} \cup {[write_ok |-> TRUE, frame |-> f] : f \in Frames(afi)}

\* bnc_new: XCALLOC of struct bgp_nexthop_cache.  The last two fields are
\* history, not in the struct: what the query that made the entry met and the
\* number of swaps the entry has seen (capped at 2)
bnc_new ==
  [valid |-> FALSE, metric |-> 0, nexthop_num |-> 0, nexthop |-> <<>>,
   changed |-> FALSE, metricchanged |-> FALSE,
   reply |-> WriteFail, age |-> 0]

\* a comparison that never finds two nexthops the same
bgp_nexthop_never_same(next1, next2) == FALSE

bgp_nexthop_same(next1, next2) ==
  IF next1.type # next2.type THEN FALSE
  ELSE CASE next1.type = "IPV4" -> next1.gate = next2.gate
         [] next1.type \in {"IFINDEX", "IFNAME"} ->
              next1.ifindex = next2.ifindex
         [] next1.type = "IPV6" -> next1.gate = next2.gate
         [] next1.type \in {"IPV6_IFINDEX", "IPV6_IFNAME"} ->
              next1.gate = next2.gate /\ next1.ifindex = next2.ifindex
         [] OTHER -> TRUE

\* a comparison that looks at the nexthop counts alone
bgp_nexthop_cache_different_by_count(bnc1, bnc2) ==
  bnc1.nexthop_num # bnc2.nexthop_num

bgp_nexthop_cache_different(bnc1, bnc2) ==
  IF bnc1.nexthop_num # bnc2.nexthop_num THEN TRUE
  ELSE \E i \in 1..bnc1.nexthop_num :
         ~ bgp_nexthop_same(bnc1.nexthop[i], bnc2.nexthop[i])

\* the per-type switch of zlookup_read / zlookup_read_ipv6: the fields the
\* reader takes from the wire; the others stay as XCALLOC left them
ReadNexthop(afi, w) ==
  IF afi = AFI_IP
  THEN CASE w.type = "IPV4" -> [NexthopZero EXCEPT !.type = w.type, !.gate = w.gate]
         [] w.type \in {"IFINDEX", "IFNAME"} ->
              [NexthopZero EXCEPT !.type = w.type, !.ifindex = w.ifindex]
         [] OTHER -> [NexthopZero EXCEPT !.type = w.type]
  ELSE CASE w.type = "IPV6" -> [NexthopZero EXCEPT !.type = w.type, !.gate = w.gate]
         [] w.type \in {"IPV6_IFINDEX", "IPV6_IFNAME"} ->
              [type |-> w.type, gate |-> w.gate, ifindex |-> w.ifindex]
         [] w.type \in {"IFINDEX", "IFNAME"} ->
              [NexthopZero EXCEPT !.type = w.type, !.ifindex = w.ifindex]
         [] OTHER -> [NexthopZero EXCEPT !.type = w.type]

\* a read that makes a valid entry of a reply without nexthops
zlookup_read_empty_valid(afi, f) ==
  IF ~ f.hdr_ok THEN <<>>
  ELSE << [bnc_new EXCEPT
             !.valid = TRUE, !.metric = f.metric,
             !.nexthop_num = Len(f.nexthops),
             !.nexthop = [i \in 1..Len(f.nexthops) |->
                            ReadNexthop(afi, f.nexthops[i])]] >>

\* zlookup_read / zlookup_read_ipv6: NULL (<<>>) or a new entry
zlookup_read(afi, f) ==
  IF ~ f.hdr_ok THEN <<>>
  ELSE IF Len(f.nexthops) # 0
       THEN << [bnc_new EXCEPT
                  !.valid = TRUE, !.metric = f.metric,
                  !.nexthop_num = Len(f.nexthops),
                  !.nexthop = [i \in 1..Len(f.nexthops) |->
                                 ReadNexthop(afi, f.nexthops[i])]] >>
       ELSE <<>>

----------------------------------------------------------------------------
(* State *)

VARIABLES
  cache,            \* cache1_table (index 1) and cache2_table (index 2), per AFI
  active,           \* bgp_nexthop_cache_table[afi]: which of the two it points to
  connected,        \* bgp_connected_table[afi]: masked prefix -> <<>> or <<entry>>
  sock,             \* zlookup->sock
  t_connect,        \* zlookup->t_connect is scheduled
  bgp_scan_thread,  \* bgp_scan_thread, bgp_scan_interval and the scan timers of master
  bgp,              \* bgp_get_default () != NULL
  present,          \* the routes the RIB of the default instance holds
  rib,              \* per route: attr, BGP_INFO_VALID, BGP_INFO_IGP_CHANGED, igpmetric
  pc,               \* position inside bgp_scan_timer, "idle" between work items
  scan_afi,         \* afi of the running bgp_scan
  scan_pos,         \* index in RibOrder of the next route to visit
  desyncpfxs,       \* the scratch table of bgp_scan (set of prefixes)
  queries,          \* history: calls of zlookup_query[_ipv6] per address, this scan
  rgate,            \* history: the request frames verify_ipv4_rgates wrote
  last,             \* history: the last call of bgp_nexthop_lookup
  aggr,             \* history: aggregate increments minus decrements, per route
  damp_hits,        \* history: times bgp_damp_scan answered true, per route
  bgp_static,       \* the static entry of bgp->route[AFI_IP][SAFI_UNICAST]
  unread,           \* reply frames in the socket that no read has consumed yet
  events,           \* history: what the running bgp_scan did so far, in order
  conn_net,         \* history: per masked prefix, adds minus deletes that found it
  import_last       \* history: the last visit of bgp_import to the static entry

vars == << cache, active, connected, sock, t_connect, bgp_scan_thread, bgp,
           present, rib,
           pc, scan_afi, scan_pos, desyncpfxs, queries, rgate, last,
           aggr, damp_hits, bgp_static, unread, events, conn_net,
           import_last >>

\* the state of the import driver
importvars == << bgp_static, import_last >>

\* the receive side of the zlookup socket
wirevars == << unread >>

\* the history of the connected tables
connvars == << conn_net >>

\* bgp_table_init: no node carries info
EmptyTable(afi) == [a \in CacheAddrs(afi) |-> <<>>]

bnct_active(afi) == cache[afi][active[afi]]

\* index of the table bnct_inactive returns
InactiveIndex(afi) == IF active[afi] = 1 THEN 2 ELSE 1

bnct_inactive(afi) == cache[afi][InactiveIndex(afi)]

\* a swap that leaves the pointer where it is
bnct_swap_none(afi) == active

\* bnct_swap: the new value of bgp_nexthop_cache_table
bnct_swap(afi) == [active EXCEPT ![afi] = InactiveIndex(afi)]

\* bgp_nexthop_cache_reset: every entry freed, every info NULL
bgp_nexthop_cache_reset(table) == [a \in DOMAIN table |-> <<>>]

----------------------------------------------------------------------------
(* Connected table *)

IsPrefixOf(p, a) == Len(p) <= Len(a) /\ SubSeq(a, 1, Len(p)) = p

\* apply_mask_ipv4 / apply_mask_ipv6 on CONNECTED_PREFIX (ifc)
apply_mask(addr, prefixlen) == SubSeq(addr, 1, prefixlen)

\* prefixes the connected tables of the model can hold
ConnPrefixes(afi) ==
  IF afi = AFI_IP THEN {<<0>>, <<0, 1>>, <<1>>} ELSE {<<0, 1>>}

\* the interface addresses zebra announces
Ifcs ==
  {[afi |-> AFI_IP, address |-> <<0, 1>>, prefixlen |-> 1, loopback |-> FALSE]}

\* interface addresses that exercise every branch of the two handlers: two
\* addresses of one subnet, a nested subnet, a second subnet, 0.0.0.0/0, a
\* loopback address, an IPv6 global, the unspecified and a link-local prefix
IfcsConn ==
  {[afi |-> AFI_IP, address |-> <<0, 1>>, prefixlen |-> 1, loopback |-> FALSE],
   [afi |-> AFI_IP, address |-> <<0, 0>>, prefixlen |-> 1, loopback |-> FALSE],
   [afi |-> AFI_IP, address |-> <<0, 1>>, prefixlen |-> 2, loopback |-> FALSE],
   [afi |-> AFI_IP, address |-> <<1, 0>>, prefixlen |-> 1, loopback |-> FALSE],
   [afi |-> AFI_IP, address |-> <<0, 0>>, prefixlen |-> 0, loopback |-> FALSE],
   [afi |-> AFI_IP, address |-> <<1, 1>>, prefixlen |-> 1, loopback |-> TRUE],
   [afi |-> AFI_IP6, address |-> <<0, 1, 0>>, prefixlen |-> 2, loopback |-> FALSE],
   [afi |-> AFI_IP6, address |-> <<0, 0, 1>>, prefixlen |-> 2, loopback |-> FALSE],
   [afi |-> AFI_IP6, address |-> <<1, 1, 0>>, prefixlen |-> 2, loopback |-> FALSE]}

\* bgp_table_init on bgp_connected_table[afi]: no node carries info
EmptyConnected == [afi \in AFI |-> [p \in ConnPrefixes(afi) |-> <<>>]]

\* no call has reached a connected table yet
NoConnOps == [afi \in AFI |-> [p \in ConnPrefixes(afi) |-> 0]]

\* bgp_node_lookup on a connected table: the info stored at exactly p
bgp_node_lookup(table, p) == table[p]

\* bc->refcnt of the entry stored at p, 0 where the node has no info
Refcnt(table, p) == IF table[p] = <<>> THEN 0 ELSE table[p][1].refcnt

\* bgp_node_match on a connected table: the longest stored prefix that
\* covers the address, <<>> for NULL
bgp_node_match(table, a) ==
  LET covering == {p \in DOMAIN table : table[p] # <<>> /\ IsPrefixOf(p, a)}
  IN IF covering = {} THEN <<>>
     ELSE <<CHOOSE p \in covering : \A q \in covering : Len(q) <= Len(p)>>

\* every IPv4 host address of the model
Addrs4 == {<<0, 0>>, <<0, 1>>, <<1, 0>>, <<1, 1>>}

\* peer->host of a peer with IPv4 address a: the address as text
PeerHost(a) == [i \in 1..Len(a) |-> IF a[i] = 0 THEN "0" ELSE "1"]

\* the peer->host strings of the model: IPv4 peers and one peer whose host is
\* not an IPv4 address
PeerHosts == {PeerHost(a) : a \in Addrs4} \cup {<<"f", "e">>}

\* inet_aton: <<addr>> when the text is an IPv4 address, <<>> when it is not
inet_aton(text) ==
  IF Len(text) = 2 /\ \A i \in 1..Len(text) : text[i] \in {"0", "1"}
  THEN <<[i \in 1..Len(text) |-> IF text[i] = "0" THEN 0 ELSE 1]>>
  ELSE <<>>

\* a check that does not look at zlookup->sock
bgp_multiaccess_check_v4_any_sock(nexthop, peer) ==
  LET addr == inet_aton(peer)
  IN IF addr = <<>> THEN FALSE
     ELSE LET rn1 == bgp_node_match(connected[AFI_IP], nexthop)
              rn2 == bgp_node_match(connected[AFI_IP], addr[1])
          IN IF rn1 = <<>> THEN FALSE
             ELSE IF rn2 = <<>> THEN FALSE
             ELSE rn1 = rn2

\* a check that stops after the match of the nexthop
bgp_multiaccess_check_v4_rn1(nexthop, peer) ==
  LET addr == inet_aton(peer)
  IN IF addr = <<>> THEN FALSE
     ELSE IF sock < 0 THEN FALSE
     ELSE bgp_node_match(connected[AFI_IP], nexthop) # <<>>

bgp_multiaccess_check_v4(nexthop, peer) ==
  LET addr == inet_aton(peer)
  IN IF addr = <<>> THEN FALSE
     ELSE IF sock < 0 THEN FALSE
     ELSE LET rn1 == bgp_node_match(connected[AFI_IP], nexthop)
              rn2 == bgp_node_match(connected[AFI_IP], addr[1])
          IN IF rn1 = <<>> THEN FALSE
             ELSE IF rn2 = <<>> THEN FALSE
             ELSE rn1 = rn2

\* an onlink test that finds nothing connected
bgp_nexthop_onlink_never(afi, attr) == FALSE

\* an onlink test that sends every IPv6 nexthop to the connected table
bgp_nexthop_onlink_table_only(afi, attr) ==
  IF afi = AFI_IP
  THEN bgp_node_match(connected[AFI_IP], attr.nexthop) # <<>>
  ELSE bgp_node_match(connected[AFI_IP6], attr.nexthop) # <<>>

bgp_nexthop_onlink(afi, attr) ==
  IF afi = AFI_IP
  THEN bgp_node_match(connected[AFI_IP], attr.nexthop) # <<>>
  ELSE IF attr.mp_nexthop_len = 32 THEN TRUE
       ELSE IF attr.mp_nexthop_len = 16
            THEN IF IN6_IS_ADDR_LINKLOCAL(attr.nexthop) THEN TRUE
                 ELSE bgp_node_match(connected[AFI_IP6], attr.nexthop) # <<>>
            ELSE FALSE

----------------------------------------------------------------------------
(* Resolver client and nexthop lookup *)

\* zlookup_write_packet: the socket after the write (closed when writen <= 0)
zlookup_write_packet(write_ok) == IF write_ok THEN sock ELSE -1

\* zlookup_query / zlookup_query_ipv6 meeting outcome out: the entry or NULL,
\* the socket afterwards, and the number of socket operations made
zlookup_query(afi, out) ==
  IF sock < 0
  THEN [bnc |-> <<>>, sock |-> sock, io |-> 0]
  ELSE IF ~ out.write_ok
       THEN [bnc |-> <<>>, sock |-> zlookup_write_packet(FALSE), io |-> 1]
       ELSE [bnc |-> zlookup_read(afi, out.frame),
             sock |-> zlookup_write_packet(TRUE), io |-> 3]

\* the comparison with the previous generation a fresh answer goes through
\* (bgp_nexthop_lookup, the block under "if (changed)")
CompareWithOld(bnc, oldslot, wantChanged) ==
  IF wantChanged /\ oldslot # <<>>
  THEN [bnc EXCEPT
          !.changed = bgp_nexthop_cache_different(bnc, oldslot[1]),
          !.metricchanged = IF bnc.metric # oldslot[1].metric THEN TRUE ELSE @]
  ELSE bnc

\* the entry a lookup that misses the active table stores: a default entry
\* when the resolver gave NULL, else the answer compared with the old one
FreshEntry(answer, oldslot, wantChanged) ==
  IF answer = <<>> THEN bnc_new
  ELSE CompareWithOld(answer[1], oldslot, wantChanged)

\* the end of bgp_nexthop_lookup: the route's igpmetric after the call
\* (a route without extra reads as igpmetric 0)
SetIgpMetric(bnc, igpmetric) ==
  IF bnc.valid /\ bnc.metric # 0 THEN bnc.metric ELSE 0

\* does the call read the cache at all (bgp_nexthop_lookup_ipv6 returns 1 at
\* once for a nexthop that is not a 16-octet global address)
ShortCircuit(afi, attr) ==
  afi = AFI_IP6 /\ (attr.mp_nexthop_len # 16 \/ IN6_IS_ADDR_LINKLOCAL(attr.nexthop))

\* a lookup that never finds the address in the active table
CacheHitNever(afi, a) == FALSE

\* is the lookup of address a served from the active table
CacheHit(afi, a) == bnct_active(afi)[a] # <<>>

\* history: the cache tables (index 1 or 2) a call of bgp_nexthop_lookup
\* reads: bgp_node_get on the active one, and bgp_node_lookup on the inactive
\* one when the resolver gave an entry and changed != NULL
TablesRead(afi, answer, wantChanged) ==
  {active[afi]} \cup
    (IF answer # <<>> /\ wantChanged THEN {InactiveIndex(afi)} ELSE {})

NoLookup ==
  [kind |-> "none", afi |-> AFI_IP, addr |-> <<>>, route |-> "", want |-> FALSE,
   out |-> WriteFail, sock_before |-> -1, io |-> 0, old |-> <<>>,
   bnc |-> bnc_new, ret |-> FALSE, igpmetric |-> 0, changed |-> FALSE,
   metricchanged |-> FALSE, inscan |-> FALSE, igp_before |-> 0, reads |-> {},
   current |-> FALSE]

\* bgp_nexthop_lookup (afi, peer, ri, changed, metricchanged) on route r when
\* the resolver meets outcome out; wantChanged: changed != NULL.
\* The result holds the new active table, socket and igpmetric, the return
\* value and the out parameters.
bgp_nexthop_lookup(afi, r, wantChanged, out) ==
  LET attr == rib[r].attr
      a == attr.nexthop
  IN IF ShortCircuit(afi, attr)
     THEN [NoLookup EXCEPT !.kind = "short", !.afi = afi, !.addr = a, !.route = r,
             !.want = wantChanged, !.sock_before = sock,
             !.igp_before = rib[r].igpmetric, !.ret = TRUE,
             !.igpmetric = rib[r].igpmetric]
     ELSE IF CacheHit(afi, a)
     THEN LET bnc == bnct_active(afi)[a][1]
          IN [NoLookup EXCEPT !.kind = "hit", !.afi = afi, !.addr = a, !.route = r,
                !.want = wantChanged, !.sock_before = sock,
             !.igp_before = rib[r].igpmetric, !.bnc = bnc,
                !.old = bnct_inactive(afi)[a],
                !.reads = {active[afi]},
                !.ret = bnc.valid,
                !.igpmetric = SetIgpMetric(bnc, rib[r].igpmetric),
                !.changed = wantChanged /\ bnc.changed,
                !.metricchanged = wantChanged /\ bnc.metricchanged]
     ELSE LET q == zlookup_query(afi, out)
              bnc == FreshEntry(q.bnc, bnct_inactive(afi)[a], wantChanged)
          IN [NoLookup EXCEPT !.kind = "fresh", !.afi = afi, !.addr = a, !.route = r,
                !.want = wantChanged, !.sock_before = sock,
             !.igp_before = rib[r].igpmetric, !.bnc = bnc,
                !.out = IF q.io = 3 THEN out ELSE WriteFail,
                !.io = q.io,
                !.old = bnct_inactive(afi)[a],
                !.reads = TablesRead(afi, q.bnc, wantChanged),
                !.ret = bnc.valid,
                !.igpmetric = SetIgpMetric(bnc, rib[r].igpmetric),
                !.changed = wantChanged /\ bnc.changed,
                !.metricchanged = wantChanged /\ bnc.metricchanged]

\* the state a call of bgp_nexthop_lookup leaves: the entry stored in the
\* active table, the socket, the history of queries
\* the frames left to read after an exchange that read as many frames as it
\* was sent: what was there stays, a close drops it
UnreadAfter(sockAfter) == IF sockAfter < 0 THEN 0 ELSE unread

SockAfter(res, out) ==
  IF res.kind = "fresh" THEN zlookup_query(res.afi, out).sock ELSE sock

\* a lookup that stores the fresh entry in the inactive table
CacheAfterInactive(res) ==
  IF res.kind = "fresh"
  THEN [cache EXCEPT ![res.afi][InactiveIndex(res.afi)][res.addr] =
          << [res.bnc EXCEPT !.reply = res.out] >>]
  ELSE cache

\* a lookup that, served from the active table, stores the entry again with
\* its changed flags cleared
CacheAfterRefresh(res) ==
  IF res.kind = "fresh"
  THEN [cache EXCEPT ![res.afi][active[res.afi]][res.addr] =
          << [res.bnc EXCEPT !.reply = res.out] >>]
  ELSE IF res.kind = "hit"
  THEN [cache EXCEPT ![res.afi][active[res.afi]][res.addr] =
          << [res.bnc EXCEPT !.changed = FALSE, !.metricchanged = FALSE] >>]
  ELSE cache

CacheAfter(res) ==
  IF res.kind = "fresh"
  THEN [cache EXCEPT ![res.afi][active[res.afi]][res.addr] =
          << [res.bnc EXCEPT !.reply = res.out] >>]
  ELSE cache

\* history: every entry of the two tables has seen one more swap
Aged(tables) ==
  [i \in DOMAIN tables |->
     [a \in DOMAIN tables[i] |->
        IF tables[i][a] = <<>> THEN <<>>
        ELSE << [tables[i][a][1] EXCEPT !.age = IF @ < 2 THEN @ + 1 ELSE @] >>]]

----------------------------------------------------------------------------
(* Reverse-gate verification *)

\* the order bgp_table_top / bgp_route_next visit the nodes of a cache table
TableOrder(afi) ==
  IF afi = AFI_IP THEN << <<0, 1>>, <<1, 0>>, <<1, 1>> >> ELSE << Global6 >>

\* the first nexthop of type NEXTHOP_TYPE_IPV4 of an entry, as a 0/1 sequence
FirstIpv4(bnc) ==
  LET idx == {i \in 1..Len(bnc.nexthop) : bnc.nexthop[i].type = "IPV4"}
  IN IF idx = {} THEN <<>>
     ELSE << bnc.nexthop[CHOOSE i \in idx : \A j \in idx : i <= j] >>

\* the (bgp nexthop, cached rgate) pairs verify_ipv4_rgates buffers, in order
RECURSIVE RgatePairsFrom(_, _)
RgatePairsFrom(table, i) ==
  IF i > Len(TableOrder(AFI_IP)) THEN <<>>
  ELSE LET a == TableOrder(AFI_IP)[i]
           rest == RgatePairsFrom(table, i + 1)
       IN IF table[a] # <<>> /\ table[a][1].valid /\ FirstIpv4(table[a][1]) # <<>>
          THEN << [gate |-> a, rgate |-> FirstIpv4(table[a][1])[1].gate] >> \o rest
          ELSE rest

RgatePairs(table) == RgatePairsFrom(table, 1)

\* a batching that sends no final frame when nothing is buffered
RECURSIVE RgateFramesNoEmptyLast(_, _)
RgateFramesNoEmptyLast(pairs, buffered) ==
  IF pairs = <<>>
  THEN IF buffered = <<>> THEN <<>> ELSE << [morefollow |-> 0, nh |-> buffered] >>
  ELSE LET b == Append(buffered, Head(pairs))
       IN IF Len(b) = BatchCap
          THEN << [morefollow |-> 1, nh |-> b] >>
               \o RgateFramesNoEmptyLast(Tail(pairs), <<>>)
          ELSE RgateFramesNoEmptyLast(Tail(pairs), b)

\* the request frames the loop of verify_ipv4_rgates and its final send_rgates
\* produce from the pairs still to buffer, given what is buffered
RECURSIVE RgateFrames(_, _)
RgateFrames(pairs, buffered) ==
  IF pairs = <<>>
  THEN << [morefollow |-> 0, nh |-> buffered] >>
  ELSE LET b == Append(buffered, Head(pairs))
       IN IF Len(b) = BatchCap
          THEN << [morefollow |-> 1, nh |-> b] >> \o RgateFrames(Tail(pairs), <<>>)
          ELSE RgateFrames(Tail(pairs), b)

\* prefixes the routing service may report as out of sync
DesyncCandidates == {<<1>>}

\* reply frames of ZEBRA_BGP_IPV4_RGATE_VERIFY
RgateReplies ==
  {[hdr_ok |-> FALSE, morefollows |-> 0, pfx |-> {}]} \cup
  {[hdr_ok |-> TRUE, morefollows |-> m, pfx |-> s] :
     m \in {0, 1}, s \in SUBSET DesyncCandidates}

\* recv_verified_desync_prefixes on frame f: its return value and the table
recv_verified_desync_prefixes(pfxlist, f) ==
  IF ~ f.hdr_ok THEN [ret |-> 0, pfxlist |-> pfxlist]
  ELSE [ret |-> f.morefollows, pfxlist |-> pfxlist \cup f.pfx]

\* "while (recv_verified_desync_prefixes (pfxlist));" over the frames fs
RECURSIVE RecvLoop(_, _)
RecvLoop(pfxlist, fs) ==
  IF fs = <<>> THEN pfxlist
  ELSE LET step == recv_verified_desync_prefixes(pfxlist, Head(fs))
       IN IF step.ret # 0 THEN RecvLoop(step.pfxlist, Tail(fs)) ELSE step.pfxlist

\* the frame sequences the loop reads to its end: all frames but the last
\* make it go on, the last one stops it
ReplyRuns ==
  {fs \in UNION {[1..n -> RgateReplies] : n \in 1..MaxReplyFrames} :
     /\ \A i \in 1..(Len(fs) - 1) :
          recv_verified_desync_prefixes({}, fs[i]).ret # 0
     /\ recv_verified_desync_prefixes({}, fs[Len(fs)]).ret = 0}

\* the number of frames of its reply the routing service may have sent after
\* the frames fs the loop read: the reply goes on to its frame with
\* morefollows = 0, the loop stops at a frame with a bad header
LeftUnread(fs) ==
  IF fs # <<>> /\ ~ fs[Len(fs)].hdr_ok
  THEN 0..(MaxReplyFrames - Len(fs))
  ELSE {0}

NoRgate == [status |-> "none", sent |-> <<>>]

\* verify_ipv4_rgates (nhtable, pfxlist): firstfail is the index of the first
\* send_rgates whose write fails (0: none), fs the reply frames read.
\* Gives the prefix table, the socket and the frames written.
verify_ipv4_rgates(nhtable, firstfail, fs) ==
  IF sock < 0
  THEN [pfxlist |-> {}, sock |-> sock,
        rgate |-> [NoRgate EXCEPT !.status = "nosock"]]
  ELSE LET pairs == RgatePairs(nhtable)
           frames == RgateFrames(pairs, <<>>)
       IN IF firstfail # 0
          THEN [pfxlist |-> {}, sock |-> zlookup_write_packet(FALSE),
                rgate |-> [status |-> "sendfail",
                           sent |-> SubSeq(frames, 1, firstfail - 1)]]
          ELSE [pfxlist |-> RecvLoop({}, fs), sock |-> zlookup_write_packet(TRUE),
                rgate |-> [status |-> "done", sent |-> frames]]

\* a match that finds the prefix itself only
route_node_match_exact(pfxlist, p) == {d \in pfxlist : d = p}

\* route_node_match (desyncpfxs, &rn->p)
route_node_match(pfxlist, p) == {d \in pfxlist : IsPrefixOf(d, p)}

----------------------------------------------------------------------------
(* Initial state: after bgp_scan_init, no BGP instance configured yet *)

\* a static entry as "network" configures it, before any import run; check
\* and notify are history: how the last bgp_import_check on the entry went
\* and what the last bgp_import called for it (bgp_static_update or
\* bgp_static_withdraw)
InitStatic ==
  [valid |-> FALSE, igpmetric |-> 0, igpnexthop |-> 0, check |-> "none",
   notify |-> <<>>, backdoor |-> FALSE, rmap |-> FALSE, ipv4_unicast |-> TRUE]

\* the static entries "network" can configure: backdoor or not, with or
\* without a route-map name, in bgp->route[AFI_IP][SAFI_UNICAST] or in the
\* table of another (afi, safi)
StaticConfigs ==
  {[InitStatic EXCEPT !.backdoor = b, !.rmap = m, !.ipv4_unicast = u] :
     b \in BOOLEAN, m \in BOOLEAN, u \in BOOLEAN}

\* history: bgp_import has not visited the entry.  valid, metric, nexthop are
\* the locals of bgp_import that hold the snapshot, io counts the socket
\* operations of the visit, flag is BGP_FLAG_IMPORT_CHECK at the visit
NoImport ==
  [ran |-> FALSE, skipped |-> FALSE, flag |-> FALSE, valid |-> FALSE,
   metric |-> 0, nexthop |-> 0, io |-> 0]

InitAttr(r) ==
  IF RouteAfi(r) = AFI_IP6
  THEN [nexthop |-> Global6, mp_nexthop_len |-> 16]
  ELSE [nexthop |-> <<0, 1>>, mp_nexthop_len |-> 4]

\* the routes as the route engine holds them before any scan saw them
InitRib ==
  [r \in Routes |->
     [attr |-> InitAttr(r), valid |-> FALSE, igp_changed |-> FALSE, igpmetric |-> 0]]

\* the RIB contents the model runs with: two IBGP routes sharing a nexthop
\* next to a route that is not BGP/NORMAL, one EBGP route of a directly
\* connected peer, one IPv6 route
RibContents == {{"r1", "r3", "r4"}, {"r2"}, {"r5"}}

\* bnct_init: both tables empty, cache1_table active
bnct_init == [afi \in AFI |-> 1]

\* the scan timer as bgp_scan_init leaves it.  set: bgp_scan_thread is not
\* NULL; pending: the bgp_scan_timer timers master holds; interval:
\* bgp_scan_interval, 0 standing for BGP_SCAN_INTERVAL_DEFAULT; armed: the
\* interval the newest timer was added with
InitScanThread == [set |-> TRUE, pending |-> 1, interval |-> 0, armed |-> 0]

\* the values "bgp scan-time <5-60>" is given in the model
ScanTimes == {5, 60}

\* master takes the timer that fires off its list
thread_fired(st) == [st EXCEPT !.pending = @ - 1]

\* a cancel that leaves the timer in master
thread_cancel_none(st) == st

\* thread_cancel (bgp_scan_thread)
thread_cancel(st) == [st EXCEPT !.pending = @ - 1]

\* bgp_scan_thread = thread_add_timer (master, bgp_scan_timer, NULL,
\* bgp_scan_interval)
thread_add_timer(st) ==
  [st EXCEPT !.set = TRUE, !.pending = @ + 1, !.armed = st.interval]

\* the body shared by "bgp scan-time <5-60>" and "no bgp scan-time": set the
\* interval, cancel and re-add the timer when one is recorded
ScanTimeSet(st, interval) ==
  LET withInterval == [st EXCEPT !.interval = interval]
  IN IF st.set THEN thread_add_timer(thread_cancel(withInterval))
     ELSE withInterval

Init ==
  /\ cache = [afi \in AFI |-> [i \in {1, 2} |-> EmptyTable(afi)]]
  /\ active = bnct_init
  /\ connected = EmptyConnected
  /\ conn_net = NoConnOps
  /\ sock = -1
  /\ t_connect = TRUE
  /\ bgp_scan_thread = InitScanThread
  /\ bgp = FALSE
  /\ present \in RibContents
  /\ rib = InitRib
  /\ pc = "idle"
  /\ scan_afi = AFI_IP
  /\ scan_pos = 1
  /\ desyncpfxs = {}
  /\ queries = [afi \in AFI |-> [a \in CacheAddrs(afi) |-> 0]]
  /\ rgate = NoRgate
  /\ last = NoLookup
  /\ aggr = [r \in Routes |-> 0]
  /\ damp_hits = [r \in Routes |-> 0]
  /\ bgp_static = InitStatic
  /\ import_last = NoImport
  /\ unread = 0
  /\ events = <<>>

----------------------------------------------------------------------------
(* Work items other than the scan *)

\* zlookup_connect: ok is the result of zclient_socket_connect
zlookup_connect(ok) ==
  /\ UNCHANGED connvars
  /\ UNCHANGED events
  /\ UNCHANGED importvars
  /\ pc = "idle"
  /\ t_connect
  /\ t_connect' = FALSE
  /\ sock' = IF sock # -1 THEN sock ELSE IF ok THEN 3 ELSE -1
  /\ unread' = IF sock # -1 THEN unread ELSE 0
  /\ last' = NoLookup
  /\ UNCHANGED << present, cache, active, connected, bgp_scan_thread, bgp, rib, pc,
                  scan_afi, scan_pos, desyncpfxs, queries, rgate,
                  aggr, damp_hits >>

\* CONNECTED_PREFIX (ifc) after apply_mask
MaskedPrefix(ifc) == apply_mask(ifc.address, ifc.prefixlen)

\* the connected prefixes both handlers return on without touching the table:
\* prefix_ipv4_any, IN6_IS_ADDR_UNSPECIFIED, IN6_IS_ADDR_LINKLOCAL
ConnIgnored(ifc) ==
  LET p == MaskedPrefix(ifc)
  IN IF ifc.afi = AFI_IP
     THEN p = <<>>
     ELSE (\A i \in 1..Len(p) : p[i] = 0) \/ IN6_IS_ADDR_LINKLOCAL(p)

\* the connected tables after bgp_connected_add (ifc) on tables
connected_add(tables, ifc) ==
  LET p == MaskedPrefix(ifc)
  IN IF ifc.loopback \/ ConnIgnored(ifc) THEN tables
     ELSE IF tables[ifc.afi][p] # <<>>
          THEN [tables EXCEPT ![ifc.afi][p] = <<[refcnt |-> @[1].refcnt + 1]>>]
          ELSE [tables EXCEPT ![ifc.afi][p] = <<[refcnt |-> 1]>>]

\* a delete that keeps the entry when its count reaches zero
connected_delete_keep(tables, ifc) ==
  LET p == MaskedPrefix(ifc)
  IN IF ifc.loopback \/ ConnIgnored(ifc) THEN tables
     ELSE IF bgp_node_lookup(tables[ifc.afi], p) = <<>> THEN tables
     ELSE [tables EXCEPT ![ifc.afi][p] = <<[refcnt |-> @[1].refcnt - 1]>>]

\* the connected tables after bgp_connected_delete (ifc) on tables
connected_delete(tables, ifc) ==
  LET p == MaskedPrefix(ifc)
  IN IF ifc.loopback \/ ConnIgnored(ifc) THEN tables
     ELSE IF bgp_node_lookup(tables[ifc.afi], p) = <<>> THEN tables
     ELSE IF tables[ifc.afi][p][1].refcnt - 1 = 0
          THEN [tables EXCEPT ![ifc.afi][p] = <<>>]
          ELSE [tables EXCEPT ![ifc.afi][p] = <<[refcnt |-> @[1].refcnt - 1]>>]

bgp_connected_add(ifc) ==
  /\ UNCHANGED events
  /\ UNCHANGED wirevars
  /\ UNCHANGED importvars
  /\ pc = "idle"
  /\ \E r \in present : RouteEbgpTtl1(r)
  /\ \A p \in ConnPrefixes(ifc.afi) : Refcnt(connected[ifc.afi], p) < MaxRefcnt
  /\ connected' = connected_add(connected, ifc)
  /\ conn_net' = IF ifc.loopback \/ ConnIgnored(ifc) THEN conn_net
                 ELSE [conn_net EXCEPT ![ifc.afi][MaskedPrefix(ifc)] = @ + 1]
  /\ last' = NoLookup
  /\ UNCHANGED << present, cache, active, sock, t_connect, bgp_scan_thread, bgp, rib, pc,
                  scan_afi, scan_pos, desyncpfxs, queries, rgate,
                  aggr, damp_hits >>

bgp_connected_delete(ifc) ==
  /\ UNCHANGED events
  /\ UNCHANGED wirevars
  /\ UNCHANGED importvars
  /\ pc = "idle"
  /\ connected' = connected_delete(connected, ifc)
  /\ conn_net' = IF ifc.loopback \/ ConnIgnored(ifc)
                    \/ bgp_node_lookup(connected[ifc.afi], MaskedPrefix(ifc)) = <<>>
                 THEN conn_net
                 ELSE [conn_net EXCEPT ![ifc.afi][MaskedPrefix(ifc)] = @ - 1]
  /\ last' = NoLookup
  /\ UNCHANGED << present, cache, active, sock, t_connect, bgp_scan_thread, bgp, rib, pc,
                  scan_afi, scan_pos, desyncpfxs, queries, rgate,
                  aggr, damp_hits >>

\* the route engine: "router bgp" creates the default instance
BgpCreate ==
  /\ UNCHANGED connvars
  /\ UNCHANGED events
  /\ UNCHANGED wirevars
  /\ UNCHANGED importvars
  /\ pc = "idle"
  /\ ~ bgp
  /\ bgp' = TRUE
  /\ last' = NoLookup
  /\ UNCHANGED << present, cache, active, connected, sock, t_connect, bgp_scan_thread, rib,
                  pc, scan_afi, scan_pos, desyncpfxs, queries, rgate,
                  aggr, damp_hits >>

\* the route engine: "no router bgp" deletes the instance and its RIB
BgpDelete ==
  /\ UNCHANGED connvars
  /\ UNCHANGED events
  /\ UNCHANGED wirevars
  /\ bgp_static' = [bgp_static EXCEPT !.valid = FALSE, !.igpmetric = 0,
                                      !.igpnexthop = 0, !.check = "none",
                                      !.notify = <<>>]
  /\ import_last' = NoImport
  /\ pc = "idle"
  /\ bgp
  /\ bgp' = FALSE
  /\ rib' = InitRib
  /\ aggr' = [r \in Routes |-> 0]
  /\ damp_hits' = [r \in Routes |-> 0]
  /\ last' = NoLookup
  /\ UNCHANGED << present, cache, active, connected, sock, t_connect, bgp_scan_thread, pc,
                  scan_afi, scan_pos, desyncpfxs, queries, rgate >>

\* routes whose attribute an UPDATE replaces in the model
Updatable == {"r5"}

\* the route engine: an UPDATE replaces the attribute of a route
RouteUpdate(r, attr) ==
  /\ UNCHANGED connvars
  /\ UNCHANGED events
  /\ UNCHANGED wirevars
  /\ UNCHANGED importvars
  /\ pc = "idle"
  /\ bgp
  /\ rib[r].attr # attr
  /\ rib' = [rib EXCEPT ![r].attr = attr]
  /\ last' = NoLookup
  /\ UNCHANGED << present, cache, active, connected, sock, t_connect, bgp_scan_thread, bgp,
                  pc, scan_afi, scan_pos, desyncpfxs, queries, rgate,
                  aggr, damp_hits >>

\* routes the route engine looks up between scans in the model
Lookable == {"r3", "r5"}

\* the route engine calls bgp_nexthop_lookup (afi, peer, ri, NULL, NULL)
ExternalLookup(r, out) ==
  /\ UNCHANGED connvars
  /\ UNCHANGED events
  /\ UNCHANGED importvars
  /\ pc = "idle"
  /\ bgp
  /\ LET res == bgp_nexthop_lookup(RouteAfi(r), r, FALSE, out)
     IN /\ last' = res
        /\ cache' = CacheAfter(res)
        /\ sock' = SockAfter(res, out)
        /\ unread' = UnreadAfter(SockAfter(res, out))
        /\ rib' = [rib EXCEPT ![r].igpmetric = res.igpmetric]
  /\ UNCHANGED << present, active, connected, t_connect, bgp_scan_thread, bgp, pc, scan_afi,
                  scan_pos, desyncpfxs, queries, rgate, aggr, damp_hits >>

----------------------------------------------------------------------------
(* The scan: bgp_scan_timer runs bgp_scan (AFI_IP) then bgp_scan (AFI_IP6) *)

\* one entry of the history of a scan
Event(ev, r, p) == [ev |-> ev, route |-> r, prefix |-> p]

\* bgp_scan down to the RIB walk when a default instance exists: bnct_swap,
\* the bgp_maximum_prefix_overflow loop, verify_ipv4_rgates
ScanBeginEvents(afi) ==
  << Event("swap", "", <<>>), Event("maxprefix", "", <<>>) >>
  \o (IF afi = AFI_IP THEN << Event("rgate", "", <<>>) >> ELSE <<>>)

\* is the route at position pos the last one of its RIB node
LastOfNode(afi, pos) ==
  LET walk == RibWalk(afi, present)
  IN pos = Len(walk) \/ RoutePrefix(walk[pos + 1]) # RoutePrefix(walk[pos])

\* a walk that calls bgp_process after every route
RouteEventsProcessEach(afi, pos) ==
  LET r == RibWalk(afi, present)[pos]
  IN << Event("route", r, RoutePrefix(r)), Event("process", "", RoutePrefix(r)) >>

\* the RIB walk at position pos: the route is visited; when the inner loop
\* over rn->info ends with it, bgp_process (bgp, rn, ...) follows
RouteEvents(afi, pos) ==
  LET r == RibWalk(afi, present)[pos]
  IN << Event("route", r, RoutePrefix(r)) >>
     \o (IF LastOfNode(afi, pos)
         THEN << Event("process", "", RoutePrefix(r)) >> ELSE <<>>)

\* where bgp_scan_timer goes on when bgp_scan (afi) has returned
AfterScan(afi) == IF afi = AFI_IP THEN "begin" ELSE "idle"
NextAfi(afi) == IF afi = AFI_IP THEN AFI_IP6 ELSE AFI_IP

\* bgp_scan_timer: re-arms the timer, then starts bgp_scan (AFI_IP)
bgp_scan_timer ==
  /\ UNCHANGED connvars
  /\ UNCHANGED events
  /\ UNCHANGED wirevars
  /\ UNCHANGED importvars
  /\ pc = "idle"
  /\ bgp_scan_thread.pending > 0
  /\ bgp_scan_thread' = thread_add_timer(thread_fired(bgp_scan_thread))
  /\ pc' = "begin"
  /\ scan_afi' = AFI_IP
  /\ last' = NoLookup
  /\ UNCHANGED << present, cache, active, connected, sock, t_connect, bgp, rib, scan_pos,
                  desyncpfxs, queries, rgate, aggr, damp_hits >>

\* bgp_scan, from bnct_swap to the start of the RIB walk (lines 541-569)
bgp_scan_begin(firstfail, fs) ==
  /\ UNCHANGED connvars
  /\ events' = IF bgp THEN ScanBeginEvents(scan_afi) ELSE <<>>
  /\ UNCHANGED importvars
  /\ pc = "begin"
  /\ active' = bnct_swap(scan_afi)
  /\ queries' = [queries EXCEPT ![scan_afi] = [a \in CacheAddrs(scan_afi) |-> 0]]
  /\ cache' = [cache EXCEPT ![scan_afi] = Aged(@)]
  /\ last' = NoLookup
  /\ IF ~ bgp
     THEN \* no default instance: return
          /\ pc' = AfterScan(scan_afi)
          /\ scan_afi' = NextAfi(scan_afi)
          /\ firstfail = 0 /\ fs = <<>>
          /\ UNCHANGED << present, sock, unread, desyncpfxs, rgate, scan_pos >>
     ELSE /\ pc' = "routes"
          /\ scan_pos' = 1
          /\ scan_afi' = scan_afi
          /\ IF scan_afi = AFI_IP
             THEN \* the table that was active before the swap is now inactive
                  LET v == verify_ipv4_rgates(cache[AFI_IP][active[AFI_IP]],
                                              firstfail, fs)
                  IN /\ firstfail \in
                          0..(IF sock < 0 THEN 0
                              ELSE Len(RgateFrames(
                                     RgatePairs(cache[AFI_IP][active[AFI_IP]]), <<>>)))
                     /\ fs \in (IF sock < 0 \/ firstfail # 0 THEN {<<>>} ELSE ReplyRuns)
                     /\ desyncpfxs' = v.pfxlist
                     /\ sock' = v.sock
                     /\ rgate' = v.rgate
                     /\ \E left \in LeftUnread(fs) :
                          /\ unread + left < MaxReplyFrames
                          /\ unread' = IF v.sock < 0 THEN 0 ELSE unread + left
             ELSE /\ firstfail = 0 /\ fs = <<>>
                  /\ UNCHANGED << present, sock, unread, desyncpfxs, rgate >>
  /\ UNCHANGED << present, connected, t_connect, bgp_scan_thread, bgp, rib, aggr,
                  damp_hits >>

\* the flags and the aggregate calls of one visited route (lines 610-638):
\* valid and changed are what the validity test gave, damp what bgp_damp_scan
\* answers when it is called
\* a visit that sets BGP_INFO_VALID but never clears it
RouteAfterCheckSetOnly(ri, valid, changed, igpmetric) ==
  [ri EXCEPT !.igp_changed = changed,
             !.valid = ri.valid \/ valid,
             !.igpmetric = igpmetric]

\* a visit that sets BGP_INFO_IGP_CHANGED but never clears it
RouteAfterCheckSticky(ri, valid, changed, igpmetric) ==
  [ri EXCEPT !.igp_changed = ri.igp_changed \/ changed,
             !.valid = IF valid # ri.valid THEN ~ ri.valid ELSE ri.valid,
             !.igpmetric = igpmetric]

\* the route after the visit: BGP_INFO_IGP_CHANGED, BGP_INFO_VALID, igpmetric
RouteAfterCheck(ri, valid, changed, igpmetric) ==
  [ri EXCEPT !.igp_changed = changed,
             !.valid = IF valid # ri.valid THEN ~ ri.valid ELSE ri.valid,
             !.igpmetric = igpmetric]

\* a visit that issues no increment for a damped route
AggrDeltaNoDamp(current, valid, damped) ==
  IF valid # current THEN (IF current THEN -1 ELSE 1) ELSE 0

\* aggregate increments minus decrements the visit of the route issues
AggrDelta(current, valid, damped) ==
  (IF valid # current THEN (IF current THEN -1 ELSE 1) ELSE 0)
  + (IF damped THEN 1 ELSE 0)

\* is bgp_damp_scan called for the route
DampScanned(afi, r) == Dampening(afi) /\ RouteDampInfo(r)

\* bgp_scan, one route of the RIB walk (lines 574-641)
bgp_scan_route(out, damp) ==
  /\ UNCHANGED connvars
  /\ UNCHANGED importvars
  /\ pc = "routes"
  /\ scan_pos <= Len(RibWalk(scan_afi, present))
  /\ events' = events \o RouteEvents(scan_afi, scan_pos)
  /\ LET r == RibWalk(scan_afi, present)[scan_pos]
         ri == rib[r]
     IN /\ scan_pos' = scan_pos + 1
        /\ IF ~ RouteNormal(r)
           THEN /\ out = WriteFail /\ damp = FALSE
                /\ last' = NoLookup
                /\ UNCHANGED << present, cache, sock, unread, rib, queries, aggr,
                                damp_hits >>
           ELSE IF scan_afi = AFI_IP
                   /\ route_node_match(desyncpfxs, RoutePrefix(r)) # {}
           THEN \* rgate out of sync: goto nextprefix
                /\ out = WriteFail /\ damp = FALSE
                /\ rib' = [rib EXCEPT ![r].igp_changed = TRUE]
                /\ last' = NoLookup
                /\ UNCHANGED << present, cache, sock, unread, queries, aggr, damp_hits >>
           ELSE /\ damp \in (IF DampScanned(scan_afi, r) /\ damp_hits[r] < MaxDampHits
                             THEN BOOLEAN ELSE {FALSE})
                /\ damp_hits' = [damp_hits EXCEPT ![r] = @ + (IF damp THEN 1 ELSE 0)]
                /\ IF RouteEbgpTtl1(r)
                   THEN LET valid == bgp_nexthop_onlink(scan_afi, ri.attr)
                        IN /\ out = WriteFail
                           /\ rib' = [rib EXCEPT ![r] =
                                        RouteAfterCheck(ri, valid, FALSE, ri.igpmetric)]
                           /\ aggr' = [aggr EXCEPT ![r] =
                                         @ + AggrDelta(ri.valid, valid, damp)]
                           /\ last' = NoLookup
                           /\ UNCHANGED << present, cache, sock, unread, queries >>
                   ELSE LET res == bgp_nexthop_lookup(scan_afi, r, TRUE, out)
                        IN /\ (res.kind # "fresh" \/ sock < 0) => out = WriteFail
                           /\ rib' = [rib EXCEPT ![r] =
                                        RouteAfterCheck(ri, res.ret, res.changed,
                                                        res.igpmetric)]
                           /\ aggr' = [aggr EXCEPT ![r] =
                                         @ + AggrDelta(ri.valid, res.ret, damp)]
                           /\ last' = [res EXCEPT !.inscan = TRUE,
                                                  !.current = ri.valid]
                           /\ cache' = CacheAfter(res)
                           /\ sock' = SockAfter(res, out)
                           /\ unread' = UnreadAfter(SockAfter(res, out))
                           /\ queries' =
                                IF res.kind = "fresh"
                                THEN [queries EXCEPT ![scan_afi][res.addr] = @ + 1]
                                ELSE queries
  /\ UNCHANGED << present, active, connected, t_connect, bgp_scan_thread, bgp, pc, scan_afi,
                  desyncpfxs, rgate >>

\* bgp_scan, after the RIB walk (lines 645-652)
bgp_scan_end ==
  /\ UNCHANGED connvars
  /\ events' = <<>>
  /\ UNCHANGED wirevars
  /\ UNCHANGED importvars
  /\ pc = "routes"
  /\ scan_pos > Len(RibWalk(scan_afi, present))
  /\ cache' = [cache EXCEPT ![scan_afi][InactiveIndex(scan_afi)] =
                 bgp_nexthop_cache_reset(@)]
  /\ queries' = [queries EXCEPT ![scan_afi] = [a \in CacheAddrs(scan_afi) |-> 0]]
  /\ desyncpfxs' = {}
  /\ rgate' = NoRgate
  /\ pc' = AfterScan(scan_afi)
  /\ scan_afi' = NextAfi(scan_afi)
  /\ last' = NoLookup
  /\ UNCHANGED << present, active, connected, sock, t_connect, bgp_scan_thread, bgp, rib,
                  scan_pos, aggr, damp_hits >>

----------------------------------------------------------------------------

Next ==
  \/ \E ok \in BOOLEAN : zlookup_connect(ok)
  \/ \E ifc \in Ifcs : bgp_connected_add(ifc)
  \/ \E ifc \in Ifcs : bgp_connected_delete(ifc)
  \/ BgpCreate
  \/ BgpDelete
  \/ \E r \in Updatable \cap present : \E attr \in Attrs(RouteAfi(r)) : RouteUpdate(r, attr)
  \/ \E r \in Lookable \cap present : \E out \in Outcomes(RouteAfi(r)) : ExternalLookup(r, out)
  \/ bgp_scan_timer
  \/ \E firstfail \in 0..(Cardinality(Nexthops4) + 1) :
       \E fs \in ReplyRuns \cup {<<>>} : bgp_scan_begin(firstfail, fs)
  \/ \E afi \in AFI : \E out \in Outcomes(afi) : \E damp \in BOOLEAN :
       scan_afi = afi /\ bgp_scan_route(out, damp)
  \/ bgp_scan_end

Spec == Init /\ [][Next]_vars

----------------------------------------------------------------------------
(* The import driver: bgp_import walks the static entries *)

\* the reply frames of ZEBRA_IPV4_IMPORT_LOOKUP the routing service sends
ImportFrames ==
  {BadFrame, GoodFrame(0, <<>>), GoodFrame(1, <<>>), GoodFrame(1, <<WireA>>),
   GoodFrame(0, <<WireA>>), GoodFrame(0, <<WireB>>)}

ImportOutcomes ==
  {WriteFail} \cup {[write_ok |-> TRUE, frame |-> f] : f \in ImportFrames}

\* bgp_import_check (p, &igpmetric, &igpnexthop) on a static entry when the
\* resolver meets outcome out: the return value, the two out parameters
\* afterwards and the socket
bgp_import_check(entry, out) ==
  IF sock < 0
  THEN [ret |-> TRUE, igpmetric |-> 0, igpnexthop |-> entry.igpnexthop,
        sock |-> sock, check |-> "nosock"]
  ELSE IF ~ out.write_ok
  THEN [ret |-> TRUE, igpmetric |-> entry.igpmetric,
        igpnexthop |-> entry.igpnexthop,
        sock |-> zlookup_write_packet(FALSE), check |-> "writefail"]
  ELSE IF ~ out.frame.hdr_ok
  THEN [ret |-> FALSE, igpmetric |-> entry.igpmetric,
        igpnexthop |-> entry.igpnexthop,
        sock |-> zlookup_write_packet(TRUE), check |-> "badhdr"]
  ELSE IF Len(out.frame.nexthops) # 0
  THEN [ret |-> TRUE, igpmetric |-> out.frame.metric,
        igpnexthop |-> IF out.frame.nexthops[1].type = "IPV4"
                       THEN out.frame.nexthops[1].gate ELSE 0,
        sock |-> zlookup_write_packet(TRUE), check |-> "read"]
  ELSE [ret |-> FALSE, igpmetric |-> out.frame.metric,
        igpnexthop |-> entry.igpnexthop,
        sock |-> zlookup_write_packet(TRUE), check |-> "read"]

\* an import that calls bgp_static_update for every entry that is valid
\* afterwards, next to the call the valid change asks for
ImportNotifyAlways(old, new) ==
  (IF new.valid # old.valid
   THEN IF new.valid THEN << "update" >> ELSE << "withdraw" >>
   ELSE <<>>)
  \o (IF new.valid THEN << "update" >> ELSE <<>>)

\* the calls bgp_import makes for an entry that went from old to new:
\* bgp_static_update, bgp_static_withdraw or none
ImportNotify(old, new) ==
  IF new.valid # old.valid
  THEN IF new.valid THEN << "update" >> ELSE << "withdraw" >>
  ELSE IF new.valid
          /\ (new.igpmetric # old.igpmetric \/ new.igpnexthop # old.igpnexthop
              \/ new.rmap)
       THEN << "update" >>
       ELSE <<>>

\* socket operations of a bgp_import_check that went as check says
ImportIo(check) ==
  CASE check = "writefail" -> 1
    [] check \in {"badhdr", "read"} -> 3
    [] OTHER -> 0

\* a visit that treats a backdoor entry like any other
ImportEntryNoBackdoor(entry, flag, res) ==
  LET new == IF flag /\ entry.ipv4_unicast
             THEN [entry EXCEPT
                     !.valid = res.ret, !.igpmetric = res.igpmetric,
                     !.igpnexthop = res.igpnexthop, !.check = res.check]
             ELSE [entry EXCEPT
                     !.valid = TRUE, !.igpmetric = 0, !.igpnexthop = 0,
                     !.check = "forced"]
  IN [new EXCEPT !.notify = ImportNotify(entry, new)]

\* the static entry after the visit of bgp_import, res being what
\* bgp_import_check gives for it
ImportEntry(entry, flag, res) ==
  IF entry.backdoor THEN entry
  ELSE LET new == IF flag /\ entry.ipv4_unicast
                  THEN [entry EXCEPT
                          !.valid = res.ret, !.igpmetric = res.igpmetric,
                          !.igpnexthop = res.igpnexthop, !.check = res.check]
                  ELSE [entry EXCEPT
                          !.valid = TRUE, !.igpmetric = 0, !.igpnexthop = 0,
                          !.check = "forced"]
       IN [new EXCEPT !.notify = ImportNotify(entry, new)]

\* bgp_import: the import timer, for the one static entry of the default
\* instance; flag: BGP_FLAG_IMPORT_CHECK is set
bgp_import(flag, out) ==
  /\ UNCHANGED connvars
  /\ UNCHANGED events
  /\ pc = "idle"
  /\ bgp
  /\ (bgp_static.backdoor \/ ~ flag \/ ~ bgp_static.ipv4_unicast \/ sock < 0)
       => out = WriteFail
  /\ LET checked == ~ bgp_static.backdoor /\ flag /\ bgp_static.ipv4_unicast
         res == bgp_import_check(bgp_static, out)
     IN /\ bgp_static' = ImportEntry(bgp_static, flag, res)
        /\ import_last' =
             IF bgp_static.backdoor
             THEN [NoImport EXCEPT !.ran = TRUE, !.skipped = TRUE, !.flag = flag]
             ELSE [ran |-> TRUE, skipped |-> FALSE, flag |-> flag,
                   valid |-> bgp_static.valid, metric |-> bgp_static.igpmetric,
                   nexthop |-> bgp_static.igpnexthop,
                   io |-> IF checked THEN ImportIo(res.check) ELSE 0]
        /\ sock' = IF checked THEN res.sock ELSE sock
        /\ unread' = UnreadAfter(IF checked THEN res.sock ELSE sock)
  /\ last' = NoLookup
  /\ UNCHANGED << present, cache, active, connected, t_connect, bgp_scan_thread, bgp,
                  rib, pc, scan_afi, scan_pos, desyncpfxs, queries, rgate, aggr,
                  damp_hits >>

\* "bgp scan-time <5-60>"
bgp_scan_time(v) ==
  /\ UNCHANGED connvars
  /\ UNCHANGED events
  /\ UNCHANGED wirevars
  /\ UNCHANGED importvars
  /\ pc = "idle"
  /\ bgp_scan_thread' = ScanTimeSet(bgp_scan_thread, v)
  /\ last' = NoLookup
  /\ UNCHANGED << present, cache, active, connected, sock, t_connect, bgp, rib, pc,
                  scan_afi, scan_pos, desyncpfxs, queries, rgate, aggr, damp_hits >>

\* "no bgp scan-time"
no_bgp_scan_time ==
  /\ UNCHANGED connvars
  /\ UNCHANGED events
  /\ UNCHANGED wirevars
  /\ UNCHANGED importvars
  /\ pc = "idle"
  /\ bgp_scan_thread' = ScanTimeSet(bgp_scan_thread, 0)
  /\ last' = NoLookup
  /\ UNCHANGED << present, cache, active, connected, sock, t_connect, bgp, rib, pc,
                  scan_afi, scan_pos, desyncpfxs, queries, rgate, aggr, damp_hits >>

\* the import driver starts with any of the static entries configured
InitImport ==
  /\ cache = [afi \in AFI |-> [i \in {1, 2} |-> EmptyTable(afi)]]
  /\ active = bnct_init
  /\ connected = EmptyConnected
  /\ conn_net = NoConnOps
  /\ sock = -1
  /\ t_connect = TRUE
  /\ bgp_scan_thread = InitScanThread
  /\ bgp = FALSE
  /\ present \in RibContents
  /\ rib = InitRib
  /\ pc = "idle"
  /\ scan_afi = AFI_IP
  /\ scan_pos = 1
  /\ desyncpfxs = {}
  /\ queries = [afi \in AFI |-> [a \in CacheAddrs(afi) |-> 0]]
  /\ rgate = NoRgate
  /\ last = NoLookup
  /\ aggr = [r \in Routes |-> 0]
  /\ damp_hits = [r \in Routes |-> 0]
  /\ bgp_static \in StaticConfigs
  /\ import_last = NoImport
  /\ unread = 0
  /\ events = <<>>

NextImport ==
  \/ \E ok \in BOOLEAN : zlookup_connect(ok)
  \/ BgpCreate
  \/ BgpDelete
  \/ \E flag \in BOOLEAN : \E out \in ImportOutcomes : bgp_import(flag, out)

SpecImport == InitImport /\ [][NextImport]_vars

----------------------------------------------------------------------------
(* The connected tables on their own: zebra announces and withdraws
   interface addresses while no scan runs *)

InitConn ==
  /\ Init
  /\ present = {"r2"}

NextConn ==
  \/ \E ok \in BOOLEAN : zlookup_connect(ok)
  \/ \E ifc \in IfcsConn : bgp_connected_add(ifc)
  \/ \E ifc \in IfcsConn : bgp_connected_delete(ifc)

SpecConn == InitConn /\ [][NextConn]_vars

----------------------------------------------------------------------------
(* The scan timer: the timer fires, the scan runs over the RIB of a directly
   connected EBGP peer, and the operator sets and resets the scan interval *)

InitTimer ==
  /\ Init
  /\ present = {"r2"}

ScanSteps ==
  \/ \E firstfail \in 0..(Cardinality(Nexthops4) + 1) :
       \E fs \in ReplyRuns \cup {<<>>} : bgp_scan_begin(firstfail, fs)
  \/ \E afi \in AFI : \E out \in Outcomes(afi) : \E damp \in BOOLEAN :
       scan_afi = afi /\ bgp_scan_route(out, damp)
  \/ bgp_scan_end

NextTimer ==
  \/ \E ok \in BOOLEAN : zlookup_connect(ok)
  \/ BgpCreate
  \/ BgpDelete
  \/ bgp_scan_timer
  \/ ScanSteps
  \/ \E v \in ScanTimes : bgp_scan_time(v)
  \/ no_bgp_scan_time

\* a pending timer fires, and a scan that started runs to its end
SpecTimer ==
  InitTimer /\ [][NextTimer]_vars
  /\ WF_vars(bgp_scan_timer) /\ WF_vars(ScanSteps)

----------------------------------------------------------------------------
(* The reverse-gate verification alone: bgp_scan (AFI_IP) starts on any table
   the previous generation may have left *)

\* what a slot of the IPv4 table may hold when a scan starts
RgateSlots ==
  {<<>>, << bnc_new >>} \cup
  {<< [zlookup_read(AFI_IP, f)[1] EXCEPT !.reply = [write_ok |-> TRUE, frame |-> f]] >> :
     f \in {GoodFrame(1, <<WireA>>), GoodFrame(1, <<WireB>>),
            GoodFrame(1, <<WireB, WireA>>)}}

InitRgate ==
  /\ cache \in {[AFI_IP |-> << t, EmptyTable(AFI_IP) >>,
                 AFI_IP6 |-> << EmptyTable(AFI_IP6), EmptyTable(AFI_IP6) >>] :
                  t \in [Nexthops4 -> RgateSlots]}
  /\ active = bnct_init
  /\ connected = EmptyConnected
  /\ conn_net = NoConnOps
  /\ sock \in {-1, 3}
  /\ t_connect = FALSE
  /\ bgp_scan_thread = InitScanThread
  /\ bgp = TRUE
  /\ present = {"r1", "r3", "r4"}
  /\ rib = InitRib
  /\ pc = "begin"
  /\ scan_afi = AFI_IP
  /\ scan_pos = 1
  /\ desyncpfxs = {}
  /\ queries = [afi \in AFI |-> [a \in CacheAddrs(afi) |-> 0]]
  /\ rgate = NoRgate
  /\ last = NoLookup
  /\ aggr = [r \in Routes |-> 0]
  /\ damp_hits = [r \in Routes |-> 0]
  /\ bgp_static = InitStatic
  /\ import_last = NoImport
  /\ unread = 0
  /\ events = <<>>

NextRgate ==
  \E firstfail \in 0..(Cardinality(Nexthops4) + 1) :
    \E fs \in ReplyRuns \cup {<<>>} : bgp_scan_begin(firstfail, fs)

SpecRgate == InitRgate /\ [][NextRgate]_vars

----------------------------------------------------------------------------
(* Properties *)

\* the resolver gave an entry: the write went through, the header was good
\* and the reply carried at least one nexthop
Answered(l) ==
  l.out.write_ok /\ l.out.frame.hdr_ok /\ l.out.frame.nexthops # <<>>

\* two nexthop lists differ in length or at some position
ListsDiffer(l1, l2) ==
  Len(l1) # Len(l2) \/ \E i \in 1..Len(l1) : l1[i] # l2[i]

\* the entry the active table holds for the address of the last lookup
LastEntry == bnct_active(last.afi)[last.addr][1]

\* an entry as bnc_new leaves it
Unresolved(e) == ~ e.valid /\ e.metric = 0 /\ e.nexthop_num = 0 /\ e.nexthop = <<>>

\* C1: within one scan of an AFI the resolver is invoked at most once per
\* nexthop address, whatever it answered; later lookups of the address in
\* that scan are served from the entry the first lookup stored.
C1_OneQueryPerAddress ==
  /\ \A afi \in AFI : \A a \in CacheAddrs(afi) : queries[afi][a] <= 1
  /\ (last.inscan /\ last.kind = "fresh") =>
       /\ queries[last.afi][last.addr] = 1
       /\ bnct_active(last.afi)[last.addr] # <<>>
       /\ LastEntry.age = 0

\* a second route of the scan is served from the entry a failed query left
C1_Witness ==
  /\ last.inscan /\ last.kind = "hit" /\ last.route = "r3"
  /\ queries[AFI_IP][last.addr] = 1
  /\ LastEntry.age = 0 /\ LastEntry.reply = WriteFail

\* C2 as claimed: on a fresh lookup, changed is true iff a previous-generation
\* entry exists and differs, and metric_changed iff it exists and its metric
\* differs, for every resolver outcome.
C2_ChangedIffDifferent_Claimed ==
  (last.inscan /\ last.kind = "fresh") =>
    /\ LastEntry.changed <=>
         (last.old # <<>> /\ ListsDiffer(LastEntry.nexthop, last.old[1].nexthop))
    /\ LastEntry.metricchanged <=>
         (last.old # <<>> /\ LastEntry.metric # last.old[1].metric)

\* C2 as amended: on a fresh lookup made with a changed pointer, changed is
\* true iff the resolver gave an entry, a previous-generation entry exists and
\* the two differ; metric_changed iff the resolver gave an entry, a previous
\* entry exists and its metric differs.  When the resolver gave no entry the
\* default entry has both flags clear whatever the previous generation held.
C2_ChangedIffAnsweredAndDifferent ==
  (last.kind = "fresh" /\ last.want) =>
    /\ LastEntry.changed <=>
         (Answered(last) /\ last.old # <<>>
          /\ ListsDiffer(LastEntry.nexthop, last.old[1].nexthop))
    /\ LastEntry.metricchanged <=>
         (Answered(last) /\ last.old # <<>>
          /\ LastEntry.metric # last.old[1].metric)
    /\ last.changed = LastEntry.changed
    /\ last.metricchanged = LastEntry.metricchanged

\* an answer with the metric of the old entry and another nexthop list
C2_Witness ==
  /\ last.kind = "fresh" /\ last.want /\ Answered(last) /\ last.old # <<>>
  /\ last.old[1].valid
  /\ LastEntry.changed /\ ~ LastEntry.metricchanged
  /\ Len(LastEntry.nexthop) = Len(last.old[1].nexthop)

\* C3: when the query of an address meets the same reply as the query of the
\* previous generation did, the lookup yields changed = false and
\* metric_changed = false and BGP_INFO_IGP_CHANGED of the route is cleared.
C3_IdenticalRepliesNoChange ==
  (last.inscan /\ last.kind = "fresh" /\ last.old # <<>>
   /\ last.old[1].age = 1 /\ last.old[1].reply = last.out) =>
    /\ ~ last.changed /\ ~ last.metricchanged
    /\ ~ LastEntry.changed /\ ~ LastEntry.metricchanged
    /\ ~ rib[last.route].igp_changed

\* the same two-nexthop answer on two consecutive scans
C3_Witness ==
  /\ last.inscan /\ last.kind = "fresh" /\ last.old # <<>>
  /\ last.old[1].age = 1 /\ last.old[1].reply = last.out
  /\ Answered(last) /\ LastEntry.nexthop_num = 2
  /\ ~ rib[last.route].igp_changed

\* C4 as claimed: after every bgp_scan (afi) has returned, the inactive table
\* of that AFI holds no entry.
C4_InactiveEmptyAfterScan ==
  /\ pc = "idle" => \A afi \in AFI : bnct_inactive(afi) = EmptyTable(afi)
  /\ (pc = "begin" /\ scan_afi = AFI_IP6) =>
       bnct_inactive(AFI_IP) = EmptyTable(AFI_IP)

\* C5: the active pointer always names one of the two tables and
\* bnct_inactive the other; it changes exactly in the first step of a scan of
\* the AFI, and then to the other table.
C5_SwapOncePerScan ==
  /\ [](\A afi \in AFI :
          active[afi] \in {1, 2} /\ InactiveIndex(afi) \in {1, 2} \ {active[afi]})
  /\ [][\A afi \in AFI :
          /\ (pc = "begin" /\ scan_afi = afi) => active'[afi] = InactiveIndex(afi)
          /\ ~ (pc = "begin" /\ scan_afi = afi) => active'[afi] = active[afi]]_vars

\* a scan that runs on cache2_table after one that ran on cache1_table left
\* its entries there
C5_Witness ==
  /\ pc = "routes" /\ scan_afi = AFI_IP /\ active[AFI_IP] = 2
  /\ bnct_inactive(AFI_IP) # EmptyTable(AFI_IP)

\* C6 as claimed: after every call of bgp_nexthop_lookup on a route, also the
\* IPv6 calls that return at once, the route's igpmetric is the metric of the
\* cache entry when the entry is valid with a metric > 0, and 0 otherwise.
C6_IgpMetricAfterLookup_Claimed ==
  /\ last.kind \in {"hit", "fresh"} =>
       rib[last.route].igpmetric =
         (IF LastEntry.valid /\ LastEntry.metric > 0 THEN LastEntry.metric ELSE 0)
  /\ last.kind = "short" => rib[last.route].igpmetric = 0

\* what holds of C6: after every call that reaches the cache (IPv4, and IPv6
\* with a 16-octet global nexthop) the route's igpmetric is the entry's metric
\* when the entry is valid with a metric > 0, and 0 otherwise; an IPv6 call
\* that returns at once leaves igpmetric as it was.
C6_IgpMetricAfterLookup ==
  /\ last.kind \in {"hit", "fresh"} =>
       rib[last.route].igpmetric =
         (IF LastEntry.valid /\ LastEntry.metric > 0 THEN LastEntry.metric ELSE 0)
  /\ last.kind = "short" => rib[last.route].igpmetric = last.igp_before

\* a route that carried a metric is looked up again and meets an entry that
\* is not valid
C6_Witness ==
  /\ last.kind \in {"hit", "fresh"} /\ last.igp_before > 0
  /\ ~ LastEntry.valid /\ rib[last.route].igpmetric = 0

\* C7 as claimed: for every route, aggregate increments minus decrements are 1
\* when the route carries BGP_INFO_VALID and 0 otherwise.
C7_AggregateBalance_Claimed ==
  \A r \in Routes : aggr[r] = (IF rib[r].valid THEN 1 ELSE 0)

\* C7 as amended: for every route, aggregate increments minus decrements equal
\* (1 when the route carries BGP_INFO_VALID, else 0) plus the number of times
\* bgp_damp_scan answered true for it.
C7_AggregateBalance ==
  \A r \in Routes : aggr[r] = (IF rib[r].valid THEN 1 ELSE 0) + damp_hits[r]

\* a route went valid, then invalid again, with one damping hit on the way
C7_Witness ==
  /\ damp_hits["r1"] = 1 /\ ~ rib["r1"].valid /\ aggr["r1"] = 1
  /\ rib["r3"].valid /\ aggr["r3"] = 1

\* the addresses of the verified table that yield a pair: valid entries with
\* a nexthop of type NEXTHOP_TYPE_IPV4
RgateAddrs ==
  {a \in Nexthops4 :
     LET slot == bnct_inactive(AFI_IP)[a]
     IN slot # <<>> /\ slot[1].valid
        /\ \E i \in 1..Len(slot[1].nexthop) : slot[1].nexthop[i].type = "IPV4"}

\* the gate fields of the frames written, one after the other
RECURSIVE SentGates(_)
SentGates(frames) ==
  IF frames = <<>> THEN <<>>
  ELSE [i \in 1..Len(Head(frames).nh) |-> Head(frames).nh[i].gate]
       \o SentGates(Tail(frames))

\* C8 as claimed: N pairs and batch cap B give exactly ceil(N/B) request
\* frames of at most B pairs, all but the last with morefollows = 1 and the
\* last with morefollows = 0, for every N >= 0.
C8_RgateBatching_Claimed ==
  rgate.status = "done" =>
    LET N == Cardinality(RgateAddrs)
        k == Len(rgate.sent)
    IN /\ k = (N + BatchCap - 1) \div BatchCap
       /\ \A i \in 1..k : Len(rgate.sent[i].nh) <= BatchCap
       /\ \A i \in 1..(k - 1) : rgate.sent[i].morefollow = 1
       /\ k > 0 => rgate.sent[k].morefollow = 0

\* C8 as amended: when every send succeeds, N pairs and batch cap B give
\* exactly floor(N/B) + 1 request frames; the first floor(N/B) carry B pairs
\* and morefollows = 1, the last carries the N mod B pairs left (none when N
\* is 0 or a multiple of B) and morefollows = 0; the pairs go out in table
\* order.  When a send fails only full frames with morefollows = 1 went out.
C8_RgateBatching ==
  LET N == Cardinality(RgateAddrs)
      k == Len(rgate.sent)
  IN /\ rgate.status = "done" =>
          /\ k = (N \div BatchCap) + 1
          /\ \A i \in 1..(k - 1) :
               Len(rgate.sent[i].nh) = BatchCap /\ rgate.sent[i].morefollow = 1
          /\ Len(rgate.sent[k].nh) = N % BatchCap
          /\ rgate.sent[k].morefollow = 0
          /\ SentGates(rgate.sent) =
               SelectSeq(TableOrder(AFI_IP), LAMBDA a : a \in RgateAddrs)
     /\ rgate.status = "sendfail" =>
          /\ k <= N \div BatchCap
          /\ \A i \in 1..k :
               Len(rgate.sent[i].nh) = BatchCap /\ rgate.sent[i].morefollow = 1
          /\ sock < 0

\* a table whose pairs fill the last full frame exactly: an empty frame follows
C8_Witness ==
  /\ rgate.status = "done"
  /\ Cardinality(RgateAddrs) = BatchCap
  /\ Len(rgate.sent) = 2
  /\ rgate.sent[2] = [morefollow |-> 0, nh |-> <<>>]

\* C9 as claimed: whenever a failed send closes the resolver socket, a
\* reconnect event is scheduled.
C9_ReconnectScheduledOnClose ==
  [][(sock >= 0 /\ sock' < 0) => t_connect']_vars

\* C10 as claimed: while the resolver socket is closed, a query returns NULL
\* without socket I/O, rgate verification does nothing, and the scan stores an
\* unresolved entry for each address it looks up for the first time and
\* leaves the route without BGP_INFO_VALID.
C10_ClosedSocket_Claimed ==
  /\ (last.kind = "fresh" /\ last.sock_before < 0) => last.io = 0
  /\ rgate.status = "nosock" => (rgate.sent = <<>> /\ desyncpfxs = {})
  /\ (last.inscan /\ last.sock_before < 0
      /\ (last.kind = "fresh" \/ (last.kind = "hit" /\ LastEntry.age > 0))) =>
       /\ Unresolved(LastEntry)
       /\ ~ rib[last.route].valid

\* what holds of C10: with the socket closed a query makes no socket I/O and
\* leaves the socket closed, the verification writes nothing and reports no
\* prefix, and a lookup that misses the active table stores an unresolved
\* entry; in a scan its route ends without BGP_INFO_VALID and with igpmetric 0.
C10_ClosedSocketQueries ==
  /\ (last.kind = "fresh" /\ last.sock_before < 0) =>
       /\ last.io = 0 /\ sock < 0
       /\ Unresolved(LastEntry)
       /\ ~ last.ret /\ rib[last.route].igpmetric = 0
       /\ last.inscan => ~ rib[last.route].valid
  /\ rgate.status = "nosock" => (rgate.sent = <<>> /\ desyncpfxs = {})

\* C11 as claimed: whenever bgp_import_check cannot use the resolver, the
\* socket being closed on entry or closed by the failing write, the static
\* entry is valid with igpmetric 0 afterwards.
C11_ImportCheckNoResolver ==
  bgp_static.check \in {"nosock", "writefail"} =>
    bgp_static.valid /\ bgp_static.igpmetric = 0

\* what holds of C11: the entry is valid in both cases; igpmetric is 0 when
\* the socket was closed on entry.
C11_ImportCheckNoResolverValid ==
  /\ bgp_static.check \in {"nosock", "writefail"} => bgp_static.valid
  /\ bgp_static.check = "nosock" => bgp_static.igpmetric = 0

\* C12 as claimed: every reply frame a query consumes is the routing service's
\* reply to that same request: when a nexthop lookup reads its reply, no frame
\* of an earlier exchange, in particular of an rgate verification, is waiting
\* in the socket before it.
C12_RepliesMatchRequests ==
  [][(last'.kind = "fresh" /\ last'.io = 3) => unread = 0]_vars

\* what holds of C12: a nexthop lookup reads exactly one frame for the one
\* request it writes, so it never adds to the frames left unread.
C12_LookupReadsOneFrame ==
  [][(last'.kind = "fresh") => unread' <= unread]_vars

\* the positions of the history that hold an event of kind ev
EventsOf(ev) == {i \in 1..Len(events) : events[i].ev = ev}

\* C13: within a scan that finds a default BGP instance the swap comes first,
\* then the prefix-limit checks, then (IPv4) the rgate verification, then the
\* route iteration, in which bgp_process is called for a prefix exactly once
\* and after all routes attached to it; the inactive table is reset only
\* when all routes have been visited.
C13_ScanOrder ==
  /\ [](pc = "routes" =>
         LET walk == RibWalk(scan_afi, present)
             n == IF scan_afi = AFI_IP THEN 3 ELSE 2
         IN /\ EventsOf("swap") = {1}
            /\ EventsOf("maxprefix") = {2}
            /\ EventsOf("rgate") = IF scan_afi = AFI_IP THEN {3} ELSE {}
            /\ \A i \in EventsOf("route") \cup EventsOf("process") : i > n
            /\ [k \in 1..Cardinality(EventsOf("route")) |->
                  events[CHOOSE i \in EventsOf("route") :
                           Cardinality({j \in EventsOf("route") : j < i}) = k - 1].route]
                 = SubSeq(walk, 1, scan_pos - 1)
            /\ \A i \in EventsOf("process") :
                 /\ \A j \in EventsOf("process") :
                      events[j].prefix = events[i].prefix => j = i
                 /\ \A k \in 1..Len(walk) :
                      RoutePrefix(walk[k]) = events[i].prefix =>
                        \E j \in EventsOf("route") : j < i /\ events[j].route = walk[k])
  /\ [][(pc = "routes" /\ pc' = "routes") =>
          bnct_inactive(scan_afi)' = bnct_inactive(scan_afi)]_vars
  /\ [][(pc = "routes" /\ pc' # "routes") =>
          LET walk == RibWalk(scan_afi, present)
          IN /\ \A k \in 1..Len(walk) :
                  /\ \E i \in EventsOf("route") : events[i].route = walk[k]
                  /\ Cardinality({i \in EventsOf("process") :
                                    events[i].prefix = RoutePrefix(walk[k])}) = 1
             /\ cache'[scan_afi][InactiveIndex(scan_afi)] = EmptyTable(scan_afi)]_vars

\* the walk is over: two prefixes were processed, the second after both of
\* its routes, and the previous generation is still in the inactive table
C13_Witness ==
  /\ pc = "routes" /\ scan_afi = AFI_IP
  /\ scan_pos > Len(RibWalk(AFI_IP, present))
  /\ Cardinality(EventsOf("process")) = 2
  /\ events[Len(events)] = Event("process", "", <<1, 0>>)
  /\ events[Len(events) - 1].route = "r4"
  /\ bnct_inactive(AFI_IP) # EmptyTable(AFI_IP)

\* C14: the connected tables are reference counted.  For every connected
\* address of a non-loopback interface, bgp_connected_add followed by
\* bgp_connected_delete of the same address leaves the tables as they were;
\* every stored entry has a refcnt of at least 1, equal to the adds minus
\* the deletes of its masked prefix, and a prefix whose count is zero has no
\* entry; bgp_connected_delete of a prefix without entry changes nothing.
C14_ConnectedRefcount ==
  /\ \A ifc \in IfcsConn :
       ~ ifc.loopback =>
         connected_delete(connected_add(connected, ifc), ifc) = connected
  /\ \A afi \in AFI : \A p \in ConnPrefixes(afi) :
       /\ connected[afi][p] # <<>> =>
            /\ connected[afi][p][1].refcnt >= 1
            /\ connected[afi][p][1].refcnt = conn_net[afi][p]
       /\ connected[afi][p] = <<>> <=> conn_net[afi][p] = 0
  /\ \A ifc \in IfcsConn :
       (ConnIgnored(ifc) \/ connected[ifc.afi][MaskedPrefix(ifc)] = <<>>) =>
         connected_delete(connected, ifc) = connected

\* two addresses of one subnet are announced next to a nested subnet, and
\* a subnet that was announced and withdrawn has no entry
C14_Witness ==
  /\ connected[AFI_IP][<<0>>] = <<[refcnt |-> 2]>>
  /\ connected[AFI_IP][<<0, 1>>] = <<[refcnt |-> 1]>>
  /\ connected[AFI_IP][<<1>>] = <<>>
  /\ connected[AFI_IP6][<<0, 1>>] = <<[refcnt |-> 1]>>

\* the longest prefix stored in the IPv4 connected table that covers a, as a
\* set: empty when no stored prefix covers a
LongestConnected4(a) ==
  {p \in ConnPrefixes(AFI_IP) :
     /\ connected[AFI_IP][p] # <<>> /\ IsPrefixOf(p, a)
     /\ \A q \in ConnPrefixes(AFI_IP) :
          (connected[AFI_IP][q] # <<>> /\ IsPrefixOf(q, a)) => Len(q) <= Len(p)}

\* both addresses have a longest match and it is the same entry
SameConnectedEntry(a, b) ==
  LongestConnected4(a) # {} /\ LongestConnected4(a) = LongestConnected4(b)

\* C15 as claimed: whatever the state of the resolver socket,
\* bgp_multiaccess_check_v4 (nexthop, peer) is true iff both addresses have a
\* longest-match entry in the IPv4 connected table and it is the same entry.
C15_Multiaccess_Claimed ==
  \A a \in Addrs4 : \A b \in Addrs4 :
    bgp_multiaccess_check_v4(a, PeerHost(b)) <=> SameConnectedEntry(a, b)

\* C15 amended: with the resolver socket open the check is true iff both
\* addresses have the same longest-match entry in the IPv4 connected table;
\* with the socket closed, or a peer host that is no IPv4 address, it is
\* false.
C15_Multiaccess ==
  /\ \A a \in Addrs4 : \A b \in Addrs4 :
       bgp_multiaccess_check_v4(a, PeerHost(b))
         <=> (sock >= 0 /\ SameConnectedEntry(a, b))
  /\ \A a \in Addrs4 : \A h \in PeerHosts :
       inet_aton(h) = <<>> => ~ bgp_multiaccess_check_v4(a, h)

\* socket open, a subnet and a subnet nested in it are connected: two
\* addresses of the nested subnet pass, an address of the outer subnet and
\* one of the nested subnet do not
C15_Witness ==
  /\ sock >= 0
  /\ connected[AFI_IP][<<0>>] # <<>>
  /\ connected[AFI_IP][<<0, 1>>] # <<>>
  /\ bgp_multiaccess_check_v4(<<0, 1>>, PeerHost(<<0, 1>>))
  /\ ~ bgp_multiaccess_check_v4(<<0, 0>>, PeerHost(<<0, 1>>))

\* C16: bgp_multiaccess_check_v4 is symmetric: the check of nexthop a
\* against the peer with address b answers what the check of nexthop b
\* against the peer with address a answers, in every state of the connected
\* table and of the resolver socket.
C16_MultiaccessSymmetric ==
  \A a \in Addrs4 : \A b \in Addrs4 :
    bgp_multiaccess_check_v4(a, PeerHost(b))
      <=> bgp_multiaccess_check_v4(b, PeerHost(a))

\* socket open, one subnet connected: a pair inside it passes both ways, a
\* pair with one address outside fails both ways
C16_Witness ==
  /\ sock >= 0
  /\ connected[AFI_IP][<<0>>] # <<>>
  /\ connected[AFI_IP][<<0, 1>>] = <<>>
  /\ connected[AFI_IP][<<1>>] = <<>>
  /\ bgp_multiaccess_check_v4(<<0, 0>>, PeerHost(<<0, 1>>))
  /\ bgp_multiaccess_check_v4(<<0, 1>>, PeerHost(<<0, 0>>))
  /\ ~ bgp_multiaccess_check_v4(<<0, 0>>, PeerHost(<<1, 0>>))
  /\ ~ bgp_multiaccess_check_v4(<<1, 0>>, PeerHost(<<0, 0>>))

\* the attributes bgp_nexthop_onlink is asked about: every IPv4 nexthop;
\* IPv6 nexthops inside and outside the connected subnet and link-local, with
\* mp_nexthop_len 16, 32 and two other lengths
OnlinkAttrs(afi) ==
  IF afi = AFI_IP
  THEN {[nexthop |-> a, mp_nexthop_len |-> 4] : a \in Addrs4}
  ELSE {[nexthop |-> a, mp_nexthop_len |-> l] :
          a \in {<<0, 1, 0>>, Global6, LinkLocal6}, l \in {0, 4, 16, 32}}

\* some prefix stored in the connected table of afi covers a
InConnected(afi, a) ==
  \E p \in ConnPrefixes(afi) : connected[afi][p] # <<>> /\ IsPrefixOf(p, a)

\* C17: bgp_nexthop_onlink (afi, attr).  IPv4: true iff the nexthop lies
\* within some prefix of the IPv4 connected table.  IPv6: true for a nexthop
\* of length 32; for length 16 true for a link-local address and otherwise
\* true iff the address matches the IPv6 connected table; false for every
\* other length.
C17_Onlink ==
  /\ \A attr \in OnlinkAttrs(AFI_IP) :
       bgp_nexthop_onlink(AFI_IP, attr) <=> InConnected(AFI_IP, attr.nexthop)
  /\ \A attr \in OnlinkAttrs(AFI_IP6) :
       bgp_nexthop_onlink(AFI_IP6, attr) <=>
         \/ attr.mp_nexthop_len = 32
         \/ /\ attr.mp_nexthop_len = 16
            /\ \/ attr.nexthop[1] = 1 /\ attr.nexthop[2] = 1
               \/ InConnected(AFI_IP6, attr.nexthop)

\* an IPv4 and an IPv6 subnet are connected: nexthops inside them are
\* onlink, nexthops outside are not, and a length that is neither 16 nor 32
\* is not onlink even inside the subnet
C17_Witness ==
  /\ connected[AFI_IP][<<0>>] # <<>>
  /\ connected[AFI_IP][<<1>>] = <<>>
  /\ connected[AFI_IP6][<<0, 1>>] # <<>>
  /\ bgp_nexthop_onlink(AFI_IP, [nexthop |-> <<0, 1>>, mp_nexthop_len |-> 4])
  /\ ~ bgp_nexthop_onlink(AFI_IP, [nexthop |-> <<1, 1>>, mp_nexthop_len |-> 4])
  /\ bgp_nexthop_onlink(AFI_IP6, [nexthop |-> <<0, 1, 0>>, mp_nexthop_len |-> 16])
  /\ ~ bgp_nexthop_onlink(AFI_IP6, [nexthop |-> Global6, mp_nexthop_len |-> 16])
  /\ ~ bgp_nexthop_onlink(AFI_IP6, [nexthop |-> <<0, 1, 0>>, mp_nexthop_len |-> 4])

\* C18 as claimed: during a scan bgp_nexthop_lookup never reads the inactive
\* buffer; every table it reads is the one active for that scan.
C18_LookupReadsActiveOnly ==
  last.inscan => last.reads \subseteq {active[last.afi]}

\* C18 amended: during a scan the entry bgp_nexthop_lookup serves is read
\* from, and a fresh entry is stored in, the buffer active for that scan;
\* the inactive buffer is read exactly when the active buffer missed and the
\* resolver gave an entry, to compare it with the entry of the previous scan.
C18_LookupReads ==
  (last.inscan /\ last.kind \in {"hit", "fresh"}) =>
    /\ active[last.afi] \in last.reads
    /\ InactiveIndex(last.afi) \in last.reads
         <=> (last.kind = "fresh" /\ Answered(last))
    /\ bnct_active(last.afi)[last.addr] # <<>>
    /\ LastEntry.valid = last.bnc.valid
    /\ LastEntry.nexthop = last.bnc.nexthop
    /\ bnct_inactive(last.afi)[last.addr] = last.old

\* a scan misses the active buffer, the resolver answers, and the entry of
\* the previous scan is read from the inactive buffer
C18_Witness ==
  /\ last.inscan /\ last.kind = "fresh" /\ Answered(last)
  /\ last.old # <<>>
  /\ InactiveIndex(last.afi) \in last.reads

\* bits of a host prefix: IPV4_MAX_BITLEN / IPV6_MAX_BITLEN of the model
HostBits(afi) == IF afi = AFI_IP THEN 2 ELSE 3

\* C19: every entry stored in a nexthop cache buffer sits at a host prefix,
\* is valid only with at least one nexthop, and has nexthop_num equal to the
\* length of its nexthop list; an entry that is not valid has metric 0 and
\* an empty list.
C19_EntryShape ==
  \A afi \in AFI : \A i \in {1, 2} : \A a \in DOMAIN cache[afi][i] :
    cache[afi][i][a] # <<>> =>
      LET e == cache[afi][i][a][1]
      IN /\ Len(a) = HostBits(afi)
         /\ e.valid => e.nexthop_num >= 1
         /\ e.nexthop_num = Len(e.nexthop)
         /\ ~ e.valid => (e.metric = 0 /\ e.nexthop = <<>>)

\* the active buffer holds a valid entry with two nexthops at an address
\* whose entry of the previous scan, still in the inactive buffer, is
\* unresolved
C19_Witness ==
  \E a \in Nexthops4 :
    /\ bnct_active(AFI_IP)[a] # <<>>
    /\ bnct_active(AFI_IP)[a][1].valid
    /\ bnct_active(AFI_IP)[a][1].nexthop_num = 2
    /\ bnct_inactive(AFI_IP)[a] # <<>>
    /\ Unresolved(bnct_inactive(AFI_IP)[a][1])

\* the route the running scan visits next
Visited == RibWalk(scan_afi, present)[scan_pos]

\* the step is the visit of a BGP/NORMAL route that does not take the
\* desync shortcut
ChecksRoute ==
  /\ pc = "routes" /\ scan_pos' = scan_pos + 1
  /\ RouteNormal(Visited)
  /\ ~ (scan_afi = AFI_IP
        /\ route_node_match(desyncpfxs, RoutePrefix(Visited)) # {})

\* the resolution result of the visit: bgp_nexthop_onlink for an EBGP peer
\* with TTL 1, else what bgp_nexthop_lookup returned
ResolvedValid ==
  IF RouteEbgpTtl1(Visited)
  THEN bgp_nexthop_onlink(scan_afi, rib[Visited].attr)
  ELSE last'.ret

\* aggregate calls of the visit that bgp_damp_scan did not cause
FlagCalls == (aggr'[Visited] - aggr[Visited])
               - (damp_hits'[Visited] - damp_hits[Visited])

\* C20: after the scan has processed a BGP/NORMAL route that did not take
\* the desync shortcut, the route carries BGP_INFO_VALID iff its resolution
\* result was true; the flag changes only when the result differs from the
\* flag, each change comes with exactly one aggregate call (a decrement on
\* valid -> invalid, an increment on invalid -> valid), and a reply without
\* nexthops stores an unresolved entry and turns a valid route invalid.
C20_ValidFollowsResolution ==
  [][ChecksRoute =>
       /\ rib'[Visited].valid = ResolvedValid
       /\ (rib'[Visited].valid # rib[Visited].valid)
            <=> (ResolvedValid # rib[Visited].valid)
       /\ FlagCalls = IF ResolvedValid = rib[Visited].valid THEN 0
                      ELSE IF rib[Visited].valid THEN -1 ELSE 1
       /\ \A r \in Routes \ {Visited} :
            rib'[r].valid = rib[r].valid /\ aggr'[r] = aggr[r]
       /\ (last'.kind = "fresh" /\ last'.out.write_ok
            /\ last'.out.frame.hdr_ok /\ last'.out.frame.nexthops = <<>>) =>
              /\ Unresolved(LastEntry')
              /\ ~ rib'[Visited].valid
              /\ rib[Visited].valid => FlagCalls = -1]_vars

\* the scan met a reply without nexthops for the nexthop of a route that
\* was valid: the entry stored is unresolved and the route is invalid
C20_Witness ==
  /\ last.inscan /\ last.kind = "fresh"
  /\ last.out.write_ok /\ last.out.frame.hdr_ok
  /\ last.out.frame.nexthops = <<>>
  /\ last.current
  /\ Unresolved(LastEntry)
  /\ ~ rib[last.route].valid

\* the step is a lookup that missed, was answered, and found an entry of the
\* previous scan with the same nexthop list and another metric
MetricOnlyDifference(l) ==
  /\ l.kind = "fresh" /\ Answered(l) /\ l.old # <<>>
  /\ ~ ListsDiffer(l.bnc.nexthop, l.old[1].nexthop)
  /\ l.bnc.metric # l.old[1].metric

\* C21: after the scan has processed a BGP/NORMAL route that did not take
\* the desync shortcut, BGP_INFO_IGP_CHANGED of the route is set iff changed
\* was true for its nexthop in this scan and cleared otherwise, whatever an
\* earlier scan left; a difference in the metric alone does not set it.
C21_IgpChangedFollowsChanged ==
  [][ChecksRoute =>
       /\ rib'[Visited].igp_changed
            <=> (~ RouteEbgpTtl1(Visited) /\ last'.kind \in {"hit", "fresh"}
                 /\ LastEntry'.changed)
       /\ (~ RouteEbgpTtl1(Visited) /\ last'.kind = "fresh") =>
            (rib'[Visited].igp_changed
               <=> (Answered(last') /\ last'.old # <<>>
                    /\ ListsDiffer(last'.bnc.nexthop, last'.old[1].nexthop)))
       /\ (~ RouteEbgpTtl1(Visited) /\ MetricOnlyDifference(last')) =>
            (~ rib'[Visited].igp_changed /\ last'.metricchanged)
       /\ \A r \in Routes \ {Visited} :
            rib'[r].igp_changed = rib[r].igp_changed]_vars

\* the previous scan found the nexthop list changed and set the flag on the
\* route; this scan meets the same list with another metric and clears it
C21_Witness ==
  /\ last.inscan /\ last.route = "r1"
  /\ MetricOnlyDifference(last)
  /\ last.old[1].changed
  /\ last.metricchanged
  /\ ~ rib["r1"].igp_changed

\* the step is the visit, in an IPv4 scan, of a BGP/NORMAL route whose prefix
\* lies within a prefix of the desync table
DesyncVisit ==
  /\ pc = "routes" /\ scan_pos' = scan_pos + 1
  /\ scan_afi = AFI_IP
  /\ RouteNormal(Visited)
  /\ \E d \in desyncpfxs : IsPrefixOf(d, RoutePrefix(Visited))

\* C22: in an IPv4 scan, a BGP/NORMAL route whose prefix has a longest match
\* in the desync table gets BGP_INFO_IGP_CHANGED set and nothing else:
\* BGP_INFO_VALID, igpmetric and the aggregate counters keep their values,
\* no cache lookup or insert and no resolver query is made, the damping scan
\* is not invoked; a route without a match is processed normally.
C22_DesyncShortcut ==
  [][/\ DesyncVisit =>
          /\ rib'[Visited] = [rib[Visited] EXCEPT !.igp_changed = TRUE]
          /\ \A r \in Routes \ {Visited} : rib'[r] = rib[r]
          /\ aggr' = aggr /\ damp_hits' = damp_hits
          /\ cache' = cache /\ queries' = queries
          /\ sock' = sock /\ unread' = unread
          /\ last'.kind = "none"
     /\ (ChecksRoute /\ ~ RouteEbgpTtl1(Visited)) =>
          (last'.kind # "none" /\ last'.route = Visited /\ last'.inscan)
     /\ (ChecksRoute /\ scan_afi = AFI_IP) =>
          ~ \E d \in desyncpfxs : IsPrefixOf(d, RoutePrefix(Visited))]_vars

\* the routing service reported a prefix that covers the prefix of r3: the
\* scan has visited r3, which keeps the BGP_INFO_VALID an earlier scan gave
\* it and carries BGP_INFO_IGP_CHANGED
C22_Witness ==
  /\ pc = "routes" /\ scan_afi = AFI_IP
  /\ <<1>> \in desyncpfxs
  /\ \E i \in 1..Len(events) : events[i].ev = "route" /\ events[i].route = "r3"
  /\ rib["r3"].valid /\ rib["r3"].igp_changed
  /\ aggr["r3"] = 1

\* C23: for a route learned from an EBGP peer with TTL 1 that is not
\* desynced the scan decides validity by the onlink test alone: the resolver
\* is not queried, no cache entry is read or created for its nexthop, and
\* BGP_INFO_IGP_CHANGED is cleared.
C23_EbgpOnlinkOnly ==
  [][(ChecksRoute /\ RouteEbgpTtl1(Visited)) =>
       /\ rib'[Visited].valid
            <=> InConnected(scan_afi, rib[Visited].attr.nexthop)
       /\ ~ rib'[Visited].igp_changed
       /\ rib'[Visited].igpmetric = rib[Visited].igpmetric
       /\ cache' = cache /\ queries' = queries
       /\ sock' = sock /\ unread' = unread
       /\ last'.kind = "none"]_vars

\* the route of the directly connected EBGP peer is valid although the
\* resolver socket never opened and no cache table holds an entry
C23_Witness ==
  /\ rib["r2"].valid /\ ~ rib["r2"].igp_changed
  /\ sock < 0
  /\ \A afi \in AFI : \A i \in {1, 2} : \A a \in DOMAIN cache[afi][i] :
       cache[afi][i][a] = <<>>
  /\ \A a \in Nexthops4 : queries[AFI_IP][a] = 0
  /\ aggr["r2"] = 1

\* C24: in an import run, for a static entry that is not a backdoor, with
\* the snapshot taken before the re-evaluation: bgp_static_update is called
\* when valid went false -> true, bgp_static_withdraw when it went true ->
\* false; when valid was and stays true bgp_static_update is called iff
\* igpmetric changed, igpnexthop changed or a route-map name is present;
\* when valid was and stays false nothing is called.  At most one call is
\* made per entry and run.
C24_ImportNotifies ==
  (import_last.ran /\ ~ import_last.skipped) =>
    LET was == import_last.valid
        is == bgp_static.valid
    IN /\ Len(bgp_static.notify) <= 1
       /\ (~ was /\ is) => bgp_static.notify = << "update" >>
       /\ (was /\ ~ is) => bgp_static.notify = << "withdraw" >>
       /\ (was /\ is) =>
            (bgp_static.notify = << "update" >>
               <=> \/ bgp_static.igpmetric # import_last.metric
                   \/ bgp_static.igpnexthop # import_last.nexthop
                   \/ bgp_static.rmap)
       /\ (was /\ is) => bgp_static.notify \in {<<>>, << "update" >>}
       /\ (~ was /\ ~ is) => bgp_static.notify = <<>>

\* an entry without route-map that was valid and stays valid is announced
\* again because the resolver reported another metric
C24_Witness ==
  /\ import_last.ran /\ ~ import_last.skipped
  /\ import_last.valid /\ bgp_static.valid
  /\ ~ bgp_static.rmap
  /\ bgp_static.check = "read"
  /\ bgp_static.igpmetric # import_last.metric
  /\ bgp_static.igpnexthop = import_last.nexthop
  /\ bgp_static.notify = << "update" >>

\* C25: an import run leaves a backdoor entry as it was and makes no
\* update, withdraw or resolver query for it; an entry that is not a backdoor
\* and for which IMPORT_CHECK is unset, or whose (afi, safi) is not (IPv4,
\* unicast), ends with valid = 1, igpmetric = 0, igpnexthop = 0 without a
\* resolver query.
C25_ImportSkipsAndForces ==
  /\ bgp_static.backdoor =>
       /\ ~ bgp_static.valid /\ bgp_static.igpmetric = 0
       /\ bgp_static.igpnexthop = 0
       /\ bgp_static.notify = <<>> /\ bgp_static.check = "none"
       /\ import_last.ran => (import_last.skipped /\ import_last.io = 0)
  /\ (import_last.ran /\ ~ bgp_static.backdoor
      /\ (~ import_last.flag \/ ~ bgp_static.ipv4_unicast)) =>
       /\ bgp_static.valid
       /\ bgp_static.igpmetric = 0 /\ bgp_static.igpnexthop = 0
       /\ import_last.io = 0
       /\ bgp_static.check = "forced"

\* with the socket open and IMPORT_CHECK set, the import timer has visited
\* a backdoor entry
C25_Witness ==
  /\ sock >= 0
  /\ import_last.ran /\ import_last.skipped /\ import_last.flag
  /\ bgp_static.backdoor /\ bgp_static.ipv4_unicast

\* C26 as claimed: verify_ipv4_rgates reads reply frames only after every
\* request frame was sent (a failing send makes it return without reading),
\* and it reads up to, and not beyond, the first frame with morefollows = 0:
\* when the route iteration starts no frame of the reply is left unread.
C26_RgateReadsWholeReply ==
  /\ rgate.status = "sendfail" => desyncpfxs = {}
  /\ rgate.status = "done" => unread = 0

\* what holds of C26: nothing is read unless every request frame went out,
\* and a failing send closes the socket.
C26_RgateReadsAfterSends ==
  /\ rgate.status \in {"none", "nosock", "sendfail"} => desyncpfxs = {}
  /\ rgate.status = "sendfail" => sock < 0

\* C27: from bgp_scan_init on exactly one scan timer is pending between
\* work items.  Each firing of the timer re-arms it with the current scan
\* interval, also when the scan returns early for lack of a default
\* instance; "bgp scan-time" and "no bgp scan-time" cancel the pending timer
\* and schedule one new timer; the scan recurs forever.
C27_OneScanTimer ==
  /\ [](pc = "idle" =>
          /\ bgp_scan_thread.set
          /\ bgp_scan_thread.pending = 1
          /\ bgp_scan_thread.armed = bgp_scan_thread.interval)
  /\ [][(pc = "idle" /\ pc' = "begin") =>
          /\ bgp_scan_thread'.pending = 1
          /\ bgp_scan_thread'.armed = bgp_scan_thread.interval]_vars
  /\ [][bgp_scan_thread'.interval # bgp_scan_thread.interval =>
          /\ bgp_scan_thread'.pending = 1
          /\ bgp_scan_thread'.armed = bgp_scan_thread'.interval]_vars
  /\ []<>(pc = "begin" /\ scan_afi = AFI_IP)

\* no default instance exists, the operator has set a scan time, and a scan
\* that will return early has started with the timer re-armed at that time
C27_Witness ==
  /\ ~ bgp /\ pc = "begin" /\ scan_afi = AFI_IP
  /\ bgp_scan_thread.interval = 5
  /\ bgp_scan_thread.armed = 5
  /\ bgp_scan_thread.pending = 1

\* C28 as claimed: freshness.  In every scan that finds a default instance,
\* the first lookup of each cacheable nexthop address issues a resolver
\* query in that scan: every entry a scan is served from the active table was
\* inserted after that scan's swap and is never carried over from an earlier
\* scan, whatever scans ran before, early returns included.
C28_Freshness ==
  (last.inscan /\ last.kind = "hit" /\ last.sock_before >= 0) =>
    /\ LastEntry.age = 0
    /\ queries[last.afi][last.addr] = 1

\* the walk of the IPv4 RIB has visited every route and the two routes that
\* share a nexthop both went through bgp_nexthop_lookup
SharedNexthopResolved ==
  /\ pc = "routes" /\ scan_afi = AFI_IP
  /\ {"r1", "r3"} \subseteq present
  /\ scan_pos > Len(RibWalk(AFI_IP, present))
  /\ rib["r1"].attr.nexthop = rib["r3"].attr.nexthop
  /\ \A r \in {"r1", "r3"} : route_node_match(desyncpfxs, RoutePrefix(r)) = {}

\* C29: within one scan an entry of the active table is never modified after
\* its insertion, so the routes of the AFI that share a nexthop address and
\* are resolved through bgp_nexthop_lookup observe the same valid, changed
\* and metricchanged and receive the same igpmetric, whatever the resolver
\* does later in the scan.
C29_EntryFixedWithinScan ==
  /\ [][(pc = "routes" /\ pc' = "routes") =>
          \A afi \in AFI : \A a \in CacheAddrs(afi) :
            bnct_active(afi)[a] # <<>> =>
              cache'[afi][active'[afi]][a] = bnct_active(afi)[a]]_vars
  /\ [][(pc = "routes" /\ last'.inscan /\ last'.kind \in {"hit", "fresh"}) =>
          LET e == cache'[last'.afi][active'[last'.afi]][last'.addr][1]
          IN /\ last'.ret = e.valid
             /\ last'.changed = e.changed
             /\ last'.metricchanged = e.metricchanged
             /\ last'.igpmetric = SetIgpMetric(e, 0)
             /\ rib'[last'.route].igpmetric = last'.igpmetric]_vars
  /\ [](SharedNexthopResolved =>
          /\ rib["r1"].valid = rib["r3"].valid
          /\ rib["r1"].igp_changed = rib["r3"].igp_changed
          /\ rib["r1"].igpmetric = rib["r3"].igpmetric)

\* the first route of a nexthop got a changed answer with a metric from the
\* resolver, the second was served from the entry: both are valid, flagged
\* BGP_INFO_IGP_CHANGED and carry the metric
C29_Witness ==
  /\ SharedNexthopResolved
  /\ queries[AFI_IP][rib["r1"].attr.nexthop] = 1
  /\ bnct_active(AFI_IP)[rib["r1"].attr.nexthop] # <<>>
  /\ bnct_active(AFI_IP)[rib["r1"].attr.nexthop][1].changed
  /\ bnct_active(AFI_IP)[rib["r1"].attr.nexthop][1].metric = 1
  /\ rib["r1"].valid /\ rib["r3"].valid
  /\ rib["r1"].igp_changed /\ rib["r3"].igp_changed
  /\ rib["r1"].igpmetric = 1 /\ rib["r3"].igpmetric = 1

====
